---- MODULE Spec2Model ----
(***************************************************************************)
(* A model of the CSOPESY OS simulator core: the memory manager            *)
(* (src/Memory.h), the process interpreter (src/Process.h), the scheduler  *)
(* with its cycle worker and generator (src/Scheduler.h) and the command   *)
(* facade that drives them (src/mainMenu.h).                               *)
(*                                                                         *)
(* Four specifications share the variables:                                *)
(*   Spec     the whole system as the facade builds it (paged memory,      *)
(*            one cycle worker, generator, facade commands and sweep);     *)
(*   SpecMem  the memory manager alone, in every mode and placement        *)
(*            policy, under arbitrary allocate / deallocate calls;         *)
(*   SpecProc the interpreter alone, one process stepped to its end;       *)
(*   SpecSched the scheduler alone: processes are submitted, start() is    *)
(*            called, and the cycle worker runs them while an observer     *)
(*            notes dispatches, preemptions and retirements.               *)
(***************************************************************************)
EXTENDS Integers, Sequences, FiniteSets, TLC

(***************************************************************************)
(* Bounds of the model.                                                    *)
(***************************************************************************)
\* pids handed to the memory manager in SpecMem are 0 .. MaxPid
MaxPid == 2
\* largest request (KiB) an allocate call of SpecMem passes
MaxRequest == 5
\* caps of the two counters that only ever grow
MaxFailures == 1
MaxPagedOut == 6
\* total memory (KiB) of the managers of SpecMem
MaxMem == 8
\* cap of the capacity the vector of blocks grows to
MaxCapacity == 4
\* Process objects created in one run
MaxProcs == 2
\* cores, quantum and delay-per-exec of the configurations of Spec
MaxCPUs == 2
MaxQuantum == 2
MaxDelay == 1
\* cycles the worker runs
MaxCycle == 6
\* largest instruction count of a configuration (max-ins)
MaxIns == 2
\* longest program generateRandomInstructions is asked for
MaxRandomLen == 3
\* inserted PRINTs when the FOR count is a remainder by zero and the build
\* does not trap
MaxUBInsert == 2
\* SpecSched: processes submitted, longest generated program, cycles followed
MaxSchedProcs == 2
MaxSchedIns == 6
MaxSchedCycle == 26
\* direct use of the scheduler's interface (SpecApi)
MaxSpawned == 2
MaxExtraCalls == 1
MaxApiProcs == 2
MaxApiIns == 2
MaxApiCycle == 4
MaxNames == 2
\* processes with a randomly generated program and cycles followed (SpecRand)
MaxRandProcs == 2
MaxRandCycle == 5
\* SpecLocks: total memory (KiB) and pids of the manager the callers share
MaxLockMem == 4
MaxLockPid == 1
\* SpecThreads: threads alive at once, cycles counted and processes generated
MaxThreads == 3
MaxThreadCycle == 3
MaxGenerated == 3
\* FairSched: cycles the worker is followed through with nothing to run
MaxFairIdle == 3

(***************************************************************************)
(* Memory manager state (class MemoryManager), one record:                 *)
(*   maxMemorySize, memPerFrame, minMemPerProcess, maxMemPerProcess,       *)
(*   allocationType, allocationStrategy     the configuration              *)
(*   frames            function frameNumber -> [isFree, processID, size]   *)
(*   blocks            sequence of [startAddress, size, isFree, processID] *)
(*   processMemoryMap  function pid -> ProcessMemoryInfo                   *)
(*   totalAllocated, totalFree, totalProcessesAllocated,                   *)
(*   allocationFailures, pagesPagedOut                                     *)
(* Owner names and time stamps are display-only and left out.              *)
(***************************************************************************)
VARIABLES memoryManager, lastCall

(***************************************************************************)
(* Scheduler, processes and facade:                                        *)
(*   config        the SystemConfig record the system was initialized with *)
(*   processes     the Process objects created so far; a Process* is an    *)
(*                 index into this sequence and 0 is nullptr               *)
(*   cpuCores      function coreID -> [currentProcess, isIdle,             *)
(*                 executedCycles, delayCyclesRemaining]                   *)
(*   readyQueue, runningProcesses, finishedProcesses   sequences of Process* *)
(*   isRunning, autoGenerateProcesses, totalProcessesCreated, currentCycle *)
(*   deallocatedProcesses   the static set of deallocateFinishedProcesses  *)
(*   worker        where the cycle worker stands: [pc, core]               *)
(*   facade        where MainMenu::run stands: "sweep", "input" or "done"  *)
(*   halted        the operating system has killed the program (a fault)   *)
(***************************************************************************)
VARIABLES config, processes, cpuCores, readyQueue, runningProcesses,
          finishedProcesses, isRunning, autoGenerateProcesses,
          totalProcessesCreated, currentCycle, deallocatedProcesses,
          worker, facade, halted

(***************************************************************************)
(* trace   what an observer of the scheduler has noted so far (SpecSched):  *)
(*   dispatches      the processes in the order they were put on a core     *)
(*   preemptions     per process, how often it was returned to the queue    *)
(*   retiredAt       per process, the cycle it was retired in (0: not yet)  *)
(*   coresUsed       per process, the cores it was put on                   *)
(*   dispatchedAt    per core, the cycle of its latest dispatch             *)
(*   executedBefore  per core, instructionsExecuted of the process when it  *)
(*                   was dispatched                                         *)
(*   spawned         the cycle workers start() has spawned                  *)
(*   startsIgnored   the calls of start() that found isRunning set          *)
(*   stopsRepeated   the calls of stop() that found isRunning clear         *)
(*   nullSubmits     the calls of addProcess(nullptr)                       *)
(*   found           the latest findProcess call: its name and its result   *)
(***************************************************************************)
VARIABLES trace

(***************************************************************************)
(* threads  the threads that are followed step by step, a sequence of      *)
(*          records (empty where the cycle worker is followed through      *)
(*          `worker' and the callers' operations are taken as one step):   *)
(*   kind   "worker" or "generator" for a thread start() or                *)
(*          startProcessGeneration() has detached, "facade" or "client"    *)
(*          for a thread that calls the public interface                   *)
(*   op     the loop or the operation the thread is inside ("" between     *)
(*          calls)                                                         *)
(*   script the steps of that loop or of the operation's path              *)
(*   pc     the position in script                                         *)
(*   id     the arguments of the call, or what the thread has computed or  *)
(*          read and not yet written                                       *)
(***************************************************************************)
VARIABLES threads

memVars == <<memoryManager, lastCall>>

vars == <<memoryManager, lastCall, config, processes, cpuCores, readyQueue,
          runningProcesses, finishedProcesses, isRunning, autoGenerateProcesses,
          totalProcessesCreated, currentCycle, deallocatedProcesses,
          worker, facade, halted, trace, threads>>

Min(a, b) == IF a < b THEN a ELSE b
Max(a, b) == IF a > b THEN a ELSE b

\* MemoryFrame(int num): a free frame
MemoryFrame == [isFree |-> TRUE, processID |-> -1, size |-> 0]

\* MemoryBlock(start, sz): a free block
MemoryBlock(start, sz) ==
    [startAddress |-> start, size |-> sz, isFree |-> TRUE, processID |-> -1]

\* initializePaging: floor(total / frame) free frames numbered from 0
initializePaging(maxMem, memFrame) ==
    [n \in 0 .. (maxMem \div memFrame) - 1 |-> MemoryFrame]

\* initializeFlatMemory: one free block covering [0, total)
initializeFlatMemory(maxMem) == << MemoryBlock(0, maxMem) >>

\* The constructor MemoryManager(maxMem, memFrame, minMem, maxMemProc, type, strategy)
NewMemoryManager(maxMem, memFrame, minMem, maxMemProc, type, strategy) ==
    [ maxMemorySize           |-> maxMem,
      memPerFrame             |-> memFrame,
      minMemPerProcess        |-> minMem,
      maxMemPerProcess        |-> maxMemProc,
      allocationType          |-> type,
      allocationStrategy      |-> strategy,
      frames                  |-> IF type = "PAGING"
                                  THEN initializePaging(maxMem, memFrame)
                                  ELSE << >>,
      blocks                  |-> IF type = "PAGING"
                                  THEN << >>
                                  ELSE initializeFlatMemory(maxMem),
      blocksCapacity          |-> IF type = "PAGING" THEN 0 ELSE 1,
      blocksGrowth            |-> "x2",
      processMemoryMap        |-> << >>,
      totalAllocated          |-> 0,
      totalFree               |-> maxMem,
      totalProcessesAllocated |-> 0,
      allocationFailures      |-> 0,
      pagesPagedOut           |-> 0 ]

----------------------------------------------------------------------------
(* Placement policies over the block list.  Each returns a 1-based index    *)
(* into blocks, or 0 where the code returns -1.                             *)

Fits(blocks, i, size) == blocks[i].isFree /\ blocks[i].size >= size

\* findFirstFitBlock: the lowest index that fits
findFirstFitBlock(blocks, size) ==
    LET ok == { i \in 1 .. Len(blocks) : Fits(blocks, i, size) }
    IN  IF ok = {} THEN 0 ELSE CHOOSE i \in ok : \A j \in ok : i <= j

\* findBestFitBlock: strict '<' keeps the first of the smallest
findBestFitBlock(blocks, size) ==
    LET ok == { i \in 1 .. Len(blocks) : Fits(blocks, i, size) }
    IN  IF ok = {} THEN 0
        ELSE CHOOSE i \in ok :
               \A j \in ok : blocks[i].size < blocks[j].size
                             \/ (blocks[i].size = blocks[j].size /\ i <= j)

\* findWorstFitBlock: strict '>' against worstSize = 0 keeps the first of the
\* largest; a block of size 0 is never chosen
findWorstFitBlock(blocks, size) ==
    LET ok == { i \in 1 .. Len(blocks) : Fits(blocks, i, size) /\ blocks[i].size > 0 }
    IN  IF ok = {} THEN 0
        ELSE CHOOSE i \in ok :
               \A j \in ok : blocks[i].size > blocks[j].size
                             \/ (blocks[i].size = blocks[j].size /\ i <= j)

\* mergeFreeBlocks: one left-to-right pass; at index i merge while the right
\* neighbour is free too, else move on
RECURSIVE mergeFrom(_, _)
mergeFrom(blocks, i) ==
    IF i >= Len(blocks) THEN blocks
    ELSE IF blocks[i].isFree /\ blocks[i + 1].isFree
         THEN mergeFrom(
                [ k \in 1 .. Len(blocks) - 1 |->
                    IF k < i THEN blocks[k]
                    ELSE IF k = i
                         THEN [blocks[i] EXCEPT !.size = blocks[i].size + blocks[i + 1].size]
                         ELSE blocks[k + 1] ],
                i)
         ELSE mergeFrom(blocks, i + 1)

mergeFreeBlocks(blocks) == IF blocks = << >> THEN blocks ELSE mergeFrom(blocks, 1)

----------------------------------------------------------------------------
(* allocateMemory and deallocateMemory as functions of the manager record:  *)
(* each returns [ok |-> the bool the code returns, mm |-> the manager after]*)

\* the scan without the isFree test
RECURSIVE collectFreeFrames_AnyFrame(_, _, _, _)
collectFreeFrames_AnyFrame(frames, n, pagesNeeded, acc) ==
    IF n \notin DOMAIN frames THEN acc
    ELSE IF Len(acc) + 1 >= pagesNeeded
         THEN Append(acc, n)
         ELSE collectFreeFrames_AnyFrame(frames, n + 1, pagesNeeded, Append(acc, n))

\* the free frames the scan collects: ascending, at most pagesNeeded of them
RECURSIVE collectFreeFrames(_, _, _, _)
collectFreeFrames(frames, n, pagesNeeded, acc) ==
    IF n \notin DOMAIN frames THEN acc
    ELSE IF frames[n].isFree
         THEN IF Len(acc) + 1 >= pagesNeeded
              THEN Append(acc, n)
              ELSE collectFreeFrames(frames, n + 1, pagesNeeded, Append(acc, n))
         ELSE collectFreeFrames(frames, n + 1, pagesNeeded, acc)

\* every frame of an allocation marked as full
FrameDataSize_Full(mm, memorySize, pagesNeeded, i) == mm.memPerFrame

\* the size written into the i-th (0-based) frame of an allocation
FrameDataSize(mm, memorySize, pagesNeeded, i) ==
    IF i = pagesNeeded - 1 THEN memorySize - i * mm.memPerFrame ELSE mm.memPerFrame

\* the amount recorded as memoryAllocated by the paging branch
PagedAllocated(mm, pagesNeeded) == pagesNeeded * mm.memPerFrame

\* The statistics update and the insertion of the record (end of allocateMemory)
RecordAllocation(mm, processID, memInfo) ==
    [ mm EXCEPT
        !.totalAllocated = @ + memInfo.memoryAllocated,
        !.totalFree = @ - memInfo.memoryAllocated,
        !.totalProcessesAllocated = @ + 1,
        !.processMemoryMap =
            [ p \in (DOMAIN mm.processMemoryMap) \cup {processID} |->
                IF p = processID THEN memInfo ELSE mm.processMemoryMap[p] ] ]

\* allocatePaging that does not count a failure
allocatePaging_FailureNotCounted(mm, processID, memorySize) ==
    LET pagesNeeded == (memorySize + mm.memPerFrame - 1) \div mm.memPerFrame
        freeFrames  == collectFreeFrames(mm.frames, 0, pagesNeeded, << >>)
    IN  IF Len(freeFrames) < pagesNeeded
        THEN [ ok |-> FALSE, moved |-> FALSE,
               mm |-> mm ]
        ELSE LET chosen == { freeFrames[i] : i \in 1 .. pagesNeeded }
                 pos(n) == CHOOSE i \in 1 .. pagesNeeded : freeFrames[i] = n
                 frames2 == [ n \in DOMAIN mm.frames |->
                               IF n \in chosen
                               THEN [ isFree    |-> FALSE,
                                      processID |-> processID,
                                      size      |-> FrameDataSize(mm, memorySize,
                                                                  pagesNeeded, pos(n) - 1) ]
                               ELSE mm.frames[n] ]
                 memInfo == [ memoryRequired  |-> memorySize,
                              memoryAllocated |-> PagedAllocated(mm, pagesNeeded),
                              frameNumbers    |-> SubSeq(freeFrames, 1, pagesNeeded),
                              startAddress    |-> 0,
                              numPages        |-> pagesNeeded ]
             IN  [ ok |-> TRUE, moved |-> FALSE,
                   mm |-> RecordAllocation([mm EXCEPT !.frames = frames2],
                                           processID, memInfo) ]

allocatePaging(mm, processID, memorySize) ==
    LET pagesNeeded == (memorySize + mm.memPerFrame - 1) \div mm.memPerFrame
        freeFrames  == collectFreeFrames(mm.frames, 0, pagesNeeded, << >>)
    IN  IF Len(freeFrames) < pagesNeeded
        THEN [ ok |-> FALSE, moved |-> FALSE,
               mm |-> [mm EXCEPT !.allocationFailures = @ + 1] ]
        ELSE LET chosen == { freeFrames[i] : i \in 1 .. pagesNeeded }
                 pos(n) == CHOOSE i \in 1 .. pagesNeeded : freeFrames[i] = n
                 frames2 == [ n \in DOMAIN mm.frames |->
                               IF n \in chosen
                               THEN [ isFree    |-> FALSE,
                                      processID |-> processID,
                                      size      |-> FrameDataSize(mm, memorySize,
                                                                  pagesNeeded, pos(n) - 1) ]
                               ELSE mm.frames[n] ]
                 memInfo == [ memoryRequired  |-> memorySize,
                              memoryAllocated |-> PagedAllocated(mm, pagesNeeded),
                              frameNumbers    |-> SubSeq(freeFrames, 1, pagesNeeded),
                              startAddress    |-> 0,
                              numPages        |-> pagesNeeded ]
             IN  [ ok |-> TRUE, moved |-> FALSE,
                   mm |-> RecordAllocation([mm EXCEPT !.frames = frames2],
                                           processID, memInfo) ]

\* blocks is a std::vector: blocksCapacity is its capacity (1 after the one
\* push_back of initializeFlatMemory) and blocksGrowth the growth policy of
\* the library, doubling ("x2") or one and a half ("x1.5"); erase keeps the
\* capacity.  An insert into a full vector moves its storage.
GrownCapacity(mm) ==
    IF mm.blocksGrowth = "x2"
    THEN 2 * mm.blocksCapacity
    ELSE Max(mm.blocksCapacity + mm.blocksCapacity \div 2, mm.blocksCapacity + 1)

\* the block list after the chosen block is split and occupied.  The code
\* holds a reference to blocks[blockIndex], inserts the suffix block into the
\* vector and only then writes size, isFree and processID through the
\* reference.  When the insert moved the storage (`moved') the reference
\* dangles: the writes go to the released storage, and the block in the
\* vector keeps its old size and stays free.
SplitBlock(blocks, blockIndex, processID, memorySize, moved) ==
    LET block == blocks[blockIndex]
        taken == [ startAddress |-> block.startAddress, size |-> memorySize,
                   isFree |-> FALSE, processID |-> processID ]
    IN  IF block.size > memorySize
        THEN SubSeq(blocks, 1, blockIndex - 1)
             \o << IF moved THEN block ELSE taken,
                   MemoryBlock(block.startAddress + memorySize, block.size - memorySize) >>
             \o SubSeq(blocks, blockIndex + 1, Len(blocks))
        ELSE [blocks EXCEPT ![blockIndex] = taken]

allocateFlat(mm, processID, memorySize) ==
    LET blockIndex ==
            IF mm.allocationStrategy = "FIRST_FIT"
            THEN findFirstFitBlock(mm.blocks, memorySize)
            ELSE IF mm.allocationStrategy = "BEST_FIT"
                 THEN findBestFitBlock(mm.blocks, memorySize)
                 ELSE findWorstFitBlock(mm.blocks, memorySize)
    IN  IF blockIndex = 0
        THEN [ ok |-> FALSE, moved |-> FALSE,
               mm |-> [mm EXCEPT !.allocationFailures = @ + 1] ]
        ELSE LET memInfo == [ memoryRequired  |-> memorySize,
                              memoryAllocated |-> memorySize,
                              frameNumbers    |-> << >>,
                              startAddress    |-> mm.blocks[blockIndex].startAddress,
                              numPages        |-> 0 ]
                 inserts == mm.blocks[blockIndex].size > memorySize
                 moved   == inserts /\ Len(mm.blocks) = mm.blocksCapacity
             IN  [ ok |-> TRUE, moved |-> moved,
                   mm |-> RecordAllocation(
                            [mm EXCEPT !.blocks = SplitBlock(mm.blocks, blockIndex,
                                                             processID, memorySize,
                                                             moved),
                                       !.blocksCapacity =
                                           IF moved THEN GrownCapacity(mm) ELSE @],
                            processID, memInfo) ]

\* allocateMemory without the test for an existing record
allocateMemory_NoDuplicateCheck(mm, processID, requested) ==
    LET memorySize == Min(Max(requested, mm.minMemPerProcess), mm.maxMemPerProcess)
    IN  IF mm.allocationType = "PAGING"
        THEN allocatePaging(mm, processID, memorySize)
        ELSE allocateFlat(mm, processID, memorySize)

\* bool MemoryManager::allocateMemory(processID, processName, memorySize):
\* the result, the manager after the call, and whether the call wrote
\* through a reference into storage the vector had released (moved)
allocateMemory(mm, processID, requested) ==
    IF processID \in DOMAIN mm.processMemoryMap
    THEN [ok |-> FALSE, moved |-> FALSE, mm |-> mm]
    ELSE LET memorySize == Min(Max(requested, mm.minMemPerProcess), mm.maxMemPerProcess)
         IN  IF mm.allocationType = "PAGING"
             THEN allocatePaging(mm, processID, memorySize)
             ELSE allocateFlat(mm, processID, memorySize)

\* the frames after every frame of the list is paged out and cleared
RECURSIVE freeFrames(_, _)
freeFrames(frames, frameNumbers) ==
    IF frameNumbers = << >> THEN frames
    ELSE freeFrames([frames EXCEPT ![Head(frameNumbers)] = MemoryFrame],
                    Tail(frameNumbers))

\* the number of frames of the list writeFrameToBackingStore counts as paged
\* out: the frame is in range and occupied and the backing-store file could
\* be opened for its append (`writable' holds the frames for which it could)
PageOuts(frames, frameNumbers, writable) ==
    Cardinality({ i \in 1 .. Len(frameNumbers) :
                    /\ frameNumbers[i] \in DOMAIN frames
                    /\ ~frames[frameNumbers[i]].isFree
                    /\ frameNumbers[i] \in writable })

\* the block list after the first block owned by processID is marked free
freeBlock(blocks, processID) ==
    LET owned == { i \in 1 .. Len(blocks) : blocks[i].processID = processID }
    IN  IF owned = {} THEN blocks
        ELSE LET i == CHOOSE k \in owned : \A j \in owned : k <= j
             IN  [blocks EXCEPT ![i] = [@ EXCEPT !.isFree = TRUE, !.processID = -1]]

\* the erase with the totals moved by memoryRequired
EraseRecord_ByRequired(mm, processID) ==
    LET memInfo == mm.processMemoryMap[processID]
    IN  [ mm EXCEPT
            !.totalAllocated = @ - memInfo.memoryRequired,
            !.totalFree = @ + memInfo.memoryRequired,
            !.totalProcessesAllocated = @ - 1,
            !.processMemoryMap =
                [ p \in (DOMAIN mm.processMemoryMap) \ {processID} |->
                    mm.processMemoryMap[p] ] ]

\* the statistics update and the erase (end of deallocateMemory)
EraseRecord(mm, processID) ==
    LET memInfo == mm.processMemoryMap[processID]
    IN  [ mm EXCEPT
            !.totalAllocated = @ - memInfo.memoryAllocated,
            !.totalFree = @ + memInfo.memoryAllocated,
            !.totalProcessesAllocated = @ - 1,
            !.processMemoryMap =
                [ p \in (DOMAIN mm.processMemoryMap) \ {processID} |->
                    mm.processMemoryMap[p] ] ]

\* deallocateMemory that gives up when an append to the backing store fails
deallocateMemory_AbortsOnFailure(mm, processID, writable) ==
    IF processID \notin DOMAIN mm.processMemoryMap
    THEN [ok |-> FALSE, mm |-> mm]
    ELSE LET memInfo == mm.processMemoryMap[processID]
         IN  IF /\ mm.allocationType = "PAGING"
                /\ \E i \in 1 .. Len(memInfo.frameNumbers) :
                     memInfo.frameNumbers[i] \notin writable
             THEN [ok |-> FALSE, mm |-> mm]
             ELSE [ok |-> TRUE,
                   mm |-> EraseRecord(
                            IF mm.allocationType = "PAGING"
                            THEN [ mm EXCEPT
                                     !.pagesPagedOut = @ + Len(memInfo.frameNumbers),
                                     !.frames = freeFrames(mm.frames, memInfo.frameNumbers) ]
                            ELSE [ mm EXCEPT
                                     !.blocks = mergeFreeBlocks(freeBlock(mm.blocks, processID)) ],
                            processID)]

\* bool MemoryManager::deallocateMemory(processID); writable holds the frames
\* whose append to the backing store succeeds during the call
deallocateMemory(mm, processID, writable) ==
    IF processID \notin DOMAIN mm.processMemoryMap
    THEN [ok |-> FALSE, mm |-> mm]
    ELSE LET memInfo == mm.processMemoryMap[processID]
             freed ==
               IF mm.allocationType = "PAGING"
               THEN [ mm EXCEPT
                        !.pagesPagedOut = @ + PageOuts(mm.frames, memInfo.frameNumbers, writable),
                        !.frames = freeFrames(mm.frames, memInfo.frameNumbers) ]
               ELSE [ mm EXCEPT
                        !.blocks = mergeFreeBlocks(freeBlock(mm.blocks, processID)) ]
         IN  [ok |-> TRUE, mm |-> EraseRecord(freed, processID)]

----------------------------------------------------------------------------
(* Process (src/Process.h).  An instruction is [op, arg]: op is the leading *)
(* word of the instruction string and arg the number SLEEP reads in a       *)
(* custom program (0 elsewhere).  Register, variable and memory contents    *)
(* and the log text do not influence the counters and are left out; of the  *)
(* log file the number of lines written (logLines) is kept.                 *)

Instr(op) == [op |-> op, arg |-> 0]

\* Process(name, id, instructionCount, arrival): both constructors' member
\* initializers; a name is a number, k standing for "Process_<k>", and is the
\* id unless the caller sets another
NewProcess(id, instructionCount, custom) ==
    [ name                  |-> id,
      processID             |-> id,
      currentState          |-> "READY",
      totalInstructions     |-> instructionCount,
      instructionsExecuted  |-> 0,
      remainingInstructions |-> instructionCount,
      instructions          |-> << >>,
      sleepCounter          |-> 0,
      isCustom              |-> custom,
      assignedCore          |-> -1,
      logLines              |-> 0,
      memoryRequired        |-> 0,
      numPages              |-> 0 ]

\* void Process::setMemoryRequirement(memKB, frameSize)
setMemoryRequirement(p, memKB, frameSize) ==
    [ p EXCEPT !.memoryRequired = memKB,
               !.numPages = (memKB + frameSize - 1) \div frameSize ]

\* Process::writeLog(timestamp, coreID, message): one more line in the log file
writeLog(p) == [ p EXCEPT !.logLines = @ + 1 ]

\* generateInstructions(count): VAR first, then PRINT at odd and ADD at even
\* indices; the first push happens whatever count is
generateInstructions(p, count) ==
    [ p EXCEPT
        !.instructions = << Instr("VAR") >> \o
            [ i \in 1 .. Max(count - 1, 0) |->
                IF i % 2 = 1 THEN Instr("PRINT") ELSE Instr("ADD") ],
        !.isCustom = FALSE ]

\* the words generateRandomInstructions draws from
RandomTypes == {"PRINT", "ADD", "SUBTRACT", "DECLARE", "SLEEP", "FOR"}

\* generateRandomInstructions(count): count words drawn from the types;
\* `drawn' is the sequence rand() produced
generateRandomInstructions(p, drawn) ==
    [ p EXCEPT
        !.instructions = [ i \in 1 .. Len(drawn) |-> Instr(drawn[i]) ],
        !.isCustom = FALSE ]

\* the words generateSpecificInstructions accepts (by prefix)
ValidWords == {"PRINT", "ADD", "SUBTRACT", "DECLARE", "SLEEP", "FOR", "WRITE", "READ"}

RECURSIVE keepValid(_)
keepValid(raw) ==
    IF raw = << >> THEN << >>
    ELSE IF Head(raw).op \in ValidWords
         THEN << Head(raw) >> \o keepValid(Tail(raw))
         ELSE keepValid(Tail(raw))

\* generateSpecificInstructions(rawInstructions): unknown words are dropped,
\* then total and remaining are set to what was kept
generateSpecificInstructions(p, raw) ==
    LET kept == keepValid(raw)
    IN  [ p EXCEPT
            !.instructions = kept,
            !.isCustom = TRUE,
            !.totalInstructions = Len(kept),
            !.remainingInstructions = Len(kept) ]

\* bool Process::isFinished()
isFinished(p) ==
    p.remainingInstructions <= 0 \/ p.instructionsExecuted >= Len(p.instructions)

\* std::string Process::getCurrentInstruction(): "" past the end
getCurrentInstruction(p) ==
    IF p.instructionsExecuted < Len(p.instructions)
    THEN p.instructions[p.instructionsExecuted + 1].op
    ELSE ""

\* the tail of executeInstruction: instructionsExecuted++, remainingInstructions--
Advance(p) ==
    [ p EXCEPT !.instructionsExecuted = @ + 1, !.remainingInstructions = @ - 1 ]

\* the values rand() % m can take, m as the code computes it (C++ remainder
\* truncates towards zero, so a negative m gives 0 .. -m-1); m = 0 is undefined
RandMod(m) == IF m > 0 THEN 0 .. m - 1 ELSE 0 .. (-m) - 1

\* the FOR branch that also counts the FOR as done in remainingInstructions
ForExpand_Decrements(p, loopCount) ==
    LET e == p.instructionsExecuted
    IN  [ p EXCEPT
            !.instructionsExecuted = e + loopCount,
            !.remainingInstructions = @ - 1,
            !.instructions =
                SubSeq(p.instructions, 1, e + 1)
                \o [ i \in 1 .. loopCount |-> Instr("PRINT") ]
                \o SubSeq(p.instructions, e + 2, Len(p.instructions)) ]

\* the FOR branch of an auto program: loopCount times { instructionsExecuted++;
\* insert "PRINT" at that index }, then return without touching remaining
ForExpand(p, loopCount) ==
    LET e == p.instructionsExecuted
    IN  [ p EXCEPT
            !.instructionsExecuted = e + loopCount,
            !.instructions =
                SubSeq(p.instructions, 1, e + 1)
                \o [ i \in 1 .. loopCount |-> Instr("PRINT") ]
                \o SubSeq(p.instructions, e + 2, Len(p.instructions)) ]

\* the loop counts the FOR branch can draw; when maxInsert + 1 is 0 the
\* remainder is undefined: the build traps, or yields some count
ForLoopCounts(p) ==
    LET remainingLines == p.totalInstructions - p.instructionsExecuted - 1
        maxInsert == Min(remainingLines, 3)
    IN  IF maxInsert + 1 = 0
        THEN 1 .. MaxUBInsert
        ELSE { 1 + r : r \in RandMod(maxInsert + 1) }

ForTraps(p) ==
    Min(p.totalInstructions - p.instructionsExecuted - 1, 3) + 1 = 0

\* void Process::executeInstruction(): the set of outcomes of one call, each
\* [proc |-> the process after, fault |-> the call trapped]
executeInstruction(p) ==
    IF p.sleepCounter > 0
    THEN { [proc |-> [p EXCEPT !.sleepCounter = @ - 1], fault |-> FALSE] }
    ELSE IF p.instructionsExecuted >= Len(p.instructions) \/ p.remainingInstructions <= 0
    THEN { [proc |-> p, fault |-> FALSE] }
    ELSE LET instr == p.instructions[p.instructionsExecuted + 1]
         IN  IF ~p.isCustom
             THEN IF instr.op = "SLEEP"
                  THEN { [proc |-> Advance([p EXCEPT !.sleepCounter = 1 + r]),
                          fault |-> FALSE] : r \in 0 .. 2 }
                  ELSE IF instr.op = "FOR"
                  THEN { [proc |-> ForExpand(p, n), fault |-> FALSE] :
                           n \in ForLoopCounts(p) }
                       \cup (IF ForTraps(p)
                             THEN { [proc |-> p, fault |-> TRUE] }
                             ELSE {})
                  ELSE { [proc |-> Advance(p), fault |-> FALSE] }
             ELSE IF instr.op = "SLEEP"
                  THEN { [proc |-> Advance([p EXCEPT !.sleepCounter = Max(1, instr.arg)]),
                          fault |-> FALSE] }
                  ELSE { [proc |-> Advance(p), fault |-> FALSE] }

----------------------------------------------------------------------------
(* CPUCore and Scheduler (src/Scheduler.h).                                 *)

Cores == DOMAIN cpuCores

\* CPUCore(int id)
CPUCore == [ currentProcess |-> 0, isIdle |-> TRUE,
             executedCycles |-> 0, delayCyclesRemaining |-> 0 ]

\* the elements of a sequence
Range(seq) == { seq[i] : i \in 1 .. Len(seq) }

\* std::remove + erase: the sequence without any occurrence of x
RECURSIVE Remove(_, _)
Remove(seq, x) ==
    IF seq = << >> THEN << >>
    ELSE IF Head(seq) = x THEN Remove(Tail(seq), x)
         ELSE << Head(seq) >> \o Remove(Tail(seq), x)

\* CPUCore::assignProcess(p) on core c, with the two setters it calls on p
assignProcess(c, p) ==
    /\ cpuCores' = [cpuCores EXCEPT ![c] =
                      [ currentProcess |-> p, isIdle |-> FALSE,
                        executedCycles |-> 0, delayCyclesRemaining |-> 0 ]]
    /\ processes' = IF p # 0
                    THEN [processes EXCEPT ![p].assignedCore = c,
                                           ![p].currentState = "RUNNING"]
                    ELSE processes

\* releaseProcess that leaves the pointer in the core
releaseProcess_KeepsPointer(c, procs) ==
    /\ cpuCores' = [cpuCores EXCEPT ![c] =
                      [CPUCore EXCEPT !.currentProcess = cpuCores[c].currentProcess]]
    /\ processes' = IF cpuCores[c].currentProcess # 0
                    THEN [procs EXCEPT ![cpuCores[c].currentProcess].assignedCore = -1]
                    ELSE procs

\* releaseProcess that does not reset the process's assigned core
releaseProcess_KeepsAssignedCore(c, procs) ==
    /\ cpuCores' = [cpuCores EXCEPT ![c] = CPUCore]
    /\ processes' = procs

\* CPUCore::releaseProcess() on core c, applied to the process table procs
releaseProcess(c, procs) ==
    /\ cpuCores' = [cpuCores EXCEPT ![c] = CPUCore]
    /\ processes' = IF cpuCores[c].currentProcess # 0
                    THEN [procs EXCEPT ![cpuCores[c].currentProcess].assignedCore = -1]
                    ELSE procs

\* Scheduler::addProcess(process): push under the queue mutex
addProcess(p) == readyQueue' = Append(readyQueue, p)

\* where the worker goes after core c: the next core, or the next phase
AfterCore(pc, c, nextPc) ==
    IF c + 1 \in Cores THEN [pc |-> pc, core |-> c + 1]
                       ELSE [pc |-> nextPc, core |-> 0]

\* a cycle loop that does not test isRunning
CycleBeginUpTo_IgnoresFlag(limit) ==
    /\ ~halted
    /\ worker.pc = "loop"
    /\ currentCycle < limit
    /\ currentCycle' = currentCycle + 1
    /\ worker' = [pc |-> "admit", core |-> 0]
    /\ UNCHANGED <<memVars, config, processes, cpuCores, readyQueue,
                   runningProcesses, finishedProcesses, isRunning,
                   autoGenerateProcesses, totalProcessesCreated,
                   deallocatedProcesses, facade, threads, halted>>

\* cpuExecutionLoop: while (isRunning) { currentCycle++; ...
\* (the model follows the worker for `limit' cycles)
CycleBeginUpTo(limit) ==
    /\ ~halted
    /\ worker.pc = "loop"
    /\ isRunning
    /\ currentCycle < limit
    /\ currentCycle' = currentCycle + 1
    /\ worker' = [pc |-> "admit", core |-> 0]
    /\ UNCHANGED <<memVars, config, processes, cpuCores, readyQueue,
                   runningProcesses, finishedProcesses, isRunning,
                   autoGenerateProcesses, totalProcessesCreated,
                   deallocatedProcesses, facade, threads, halted>>

CycleBegin == CycleBeginUpTo(MaxCycle)

\* cpuExecutionLoop: the while condition read false, the worker returns
WorkerExit ==
    /\ ~halted
    /\ worker.pc = "loop"
    /\ ~isRunning
    /\ worker' = [pc |-> "exited", core |-> 0]
    /\ UNCHANGED <<memVars, config, processes, cpuCores, readyQueue,
                   runningProcesses, finishedProcesses, isRunning,
                   autoGenerateProcesses, totalProcessesCreated, currentCycle,
                   deallocatedProcesses, facade, threads, halted>>

\* the admit step taking the process at the back of the ready queue
assignProcessesToCores_FromBack ==
    /\ ~halted
    /\ worker.pc = "admit"
    /\ LET c == worker.core
           p == readyQueue[Len(readyQueue)]
       IN  IF cpuCores[c].isIdle /\ readyQueue # << >>
           THEN IF p = 0
                THEN /\ readyQueue' = SubSeq(readyQueue, 1, Len(readyQueue) - 1)
                     /\ halted' = TRUE
                     /\ UNCHANGED <<cpuCores, processes, runningProcesses, worker>>
                ELSE /\ readyQueue' = SubSeq(readyQueue, 1, Len(readyQueue) - 1)
                     /\ assignProcess(c, p)
                     /\ runningProcesses' = Append(runningProcesses, p)
                     /\ worker' = AfterCore("admit", c, "exec")
                     /\ UNCHANGED halted
           ELSE /\ worker' = AfterCore("admit", c, "exec")
                /\ UNCHANGED <<readyQueue, cpuCores, processes, runningProcesses,
                               halted>>
    /\ UNCHANGED <<memVars, config, finishedProcesses, isRunning,
                   autoGenerateProcesses, totalProcessesCreated, currentCycle,
                   deallocatedProcesses, facade, threads>>

\* assignProcessesToCores, the loop body for one core: an idle core takes the
\* head of the ready queue.  The head is read through (p->getStartTime())
\* before anything tests it: when it is nullptr the read traps and the
\* program is killed.
assignProcessesToCores ==
    /\ ~halted
    /\ worker.pc = "admit"
    /\ LET c == worker.core
           p == Head(readyQueue)
       IN  IF cpuCores[c].isIdle /\ readyQueue # << >>
           THEN IF p = 0
                THEN /\ readyQueue' = Tail(readyQueue)
                     /\ halted' = TRUE
                     /\ UNCHANGED <<cpuCores, processes, runningProcesses, worker>>
                ELSE /\ readyQueue' = Tail(readyQueue)
                     /\ assignProcess(c, p)
                     /\ runningProcesses' = Append(runningProcesses, p)
                     /\ worker' = AfterCore("admit", c, "exec")
                     /\ UNCHANGED halted
           ELSE /\ worker' = AfterCore("admit", c, "exec")
                /\ UNCHANGED <<readyQueue, cpuCores, processes, runningProcesses,
                               halted>>
    /\ UNCHANGED <<memVars, config, finishedProcesses, isRunning,
                   autoGenerateProcesses, totalProcessesCreated, currentCycle,
                   deallocatedProcesses, facade, threads>>

\* executeCycle that does not count the executed cycle
executeCycle_NoCount(c, delayPerExec) ==
    LET core == cpuCores[c]
        p    == processes[core.currentProcess]
    IN  IF core.delayCyclesRemaining > 0
        THEN { [ core  |-> [core EXCEPT !.delayCyclesRemaining = @ - 1],
                 proc  |-> p,
                 fault |-> FALSE ] }
        ELSE { [ core  |-> IF o.fault THEN core
                           ELSE [ core EXCEPT
                                    !.delayCyclesRemaining =
                                        IF ~isFinished(o.proc) /\ delayPerExec > 0
                                        THEN delayPerExec ELSE @ ],
                 proc  |-> o.proc,
                 fault |-> o.fault ] : o \in executeInstruction(p) }

\* executeCycle that never arms the busy-wait
executeCycle_NoDelay(c, delayPerExec) ==
    LET core == cpuCores[c]
        p    == processes[core.currentProcess]
    IN  IF core.delayCyclesRemaining > 0
        THEN { [ core  |-> [core EXCEPT !.delayCyclesRemaining = @ - 1],
                 proc  |-> p,
                 fault |-> FALSE ] }
        ELSE { [ core  |-> IF o.fault THEN core
                           ELSE [ core EXCEPT !.executedCycles = @ + 1 ],
                 proc  |-> o.proc,
                 fault |-> o.fault ] : o \in executeInstruction(p) }

\* CPUCore::executeCycle(delayPerExec) on core c: the outcomes, each
\* [core, proc, fault]
executeCycle(c, delayPerExec) ==
    LET core == cpuCores[c]
        p    == processes[core.currentProcess]
    IN  IF core.delayCyclesRemaining > 0
        THEN { [ core  |-> [core EXCEPT !.delayCyclesRemaining = @ - 1],
                 proc  |-> p,
                 fault |-> FALSE ] }
        ELSE { [ core  |-> IF o.fault THEN core
                           ELSE [ core EXCEPT
                                    !.executedCycles = @ + 1,
                                    !.delayCyclesRemaining =
                                        IF ~isFinished(o.proc) /\ delayPerExec > 0
                                        THEN delayPerExec ELSE @ ],
                 proc  |-> o.proc,
                 fault |-> o.fault ] : o \in executeInstruction(p) }

\* bool CPUCore::isBusyWaiting()
isBusyWaiting(c) == cpuCores[c].delayCyclesRemaining > 0

\* the log write of the execute step: a line is written when the core was not
\* busy-waiting and the instruction text captured before executeCycle is not
\* empty
LogsLine(c) ==
    /\ ~isBusyWaiting(c)
    /\ getCurrentInstruction(processes[cpuCores[c].currentProcess]) # ""

\* cpuExecutionLoop, the execute step of one core: an idle core is passed
\* over, a busy one runs executeCycle and, unless it was busy-waiting, writes
\* the captured instruction to the log of its process
ExecuteCore ==
    /\ ~halted
    /\ worker.pc = "exec"
    /\ LET c == worker.core
       IN  IF cpuCores[c].isIdle
           THEN /\ worker' = AfterCore("exec", c, "loop")
                /\ UNCHANGED <<cpuCores, processes, halted>>
           ELSE \E o \in executeCycle(c, config.delayPerExec) :
                  /\ cpuCores' = [cpuCores EXCEPT ![c] = o.core]
                  /\ processes' = [processes EXCEPT ![cpuCores[c].currentProcess] =
                                     IF LogsLine(c) /\ ~o.fault
                                     THEN writeLog(o.proc) ELSE o.proc]
                  /\ halted' = o.fault
                  /\ worker' = [pc |-> "check", core |-> c]
    /\ UNCHANGED <<memVars, config, readyQueue, runningProcesses,
                   finishedProcesses, isRunning, autoGenerateProcesses,
                   totalProcessesCreated, currentCycle, deallocatedProcesses,
                   facade, threads>>

\* Scheduler::moveToFinished(core)
moveToFinished(c) ==
    LET p == cpuCores[c].currentProcess
    IN  /\ finishedProcesses' = Append(finishedProcesses, p)
        /\ runningProcesses' = Remove(runningProcesses, p)
        /\ releaseProcess(c, [processes EXCEPT ![p].currentState = "FINISHED"])
        /\ UNCHANGED readyQueue

\* preemptProcess that leaves the process in the running list
preemptProcess_StaysRunning(c) ==
    LET p == cpuCores[c].currentProcess
    IN  IF p # 0 /\ ~isFinished(processes[p])
        THEN /\ readyQueue' = Append(readyQueue, p)
             /\ releaseProcess(c, [processes EXCEPT ![p].currentState = "READY"])
             /\ UNCHANGED <<runningProcesses, finishedProcesses>>
        ELSE UNCHANGED <<runningProcesses, readyQueue, cpuCores, processes,
                         finishedProcesses>>

\* preemptProcess that puts the process at the front of the ready queue
preemptProcess_ToFront(c) ==
    LET p == cpuCores[c].currentProcess
    IN  IF p # 0 /\ ~isFinished(processes[p])
        THEN /\ runningProcesses' = Remove(runningProcesses, p)
             /\ readyQueue' = << p >> \o readyQueue
             /\ releaseProcess(c, [processes EXCEPT ![p].currentState = "READY"])
             /\ UNCHANGED finishedProcesses
        ELSE UNCHANGED <<runningProcesses, readyQueue, cpuCores, processes,
                         finishedProcesses>>

\* Scheduler::preemptProcess(core)
preemptProcess(c) ==
    LET p == cpuCores[c].currentProcess
    IN  IF p # 0 /\ ~isFinished(processes[p])
        THEN /\ runningProcesses' = Remove(runningProcesses, p)
             /\ readyQueue' = Append(readyQueue, p)
             /\ releaseProcess(c, [processes EXCEPT ![p].currentState = "READY"])
             /\ UNCHANGED finishedProcesses
        ELSE UNCHANGED <<runningProcesses, readyQueue, cpuCores, processes,
                         finishedProcesses>>

\* bool CPUCore::processFinished()
processFinished(c) ==
    cpuCores[c].currentProcess # 0 /\ isFinished(processes[cpuCores[c].currentProcess])

\* the preemption test with > in place of >=
QuantumExpired_Strict(c) ==
    config.schedulerType = "rr" /\ cpuCores[c].executedCycles > config.quantumCycles

\* the preemption test without the policy test
QuantumExpired_AnyPolicy(c) ==
    cpuCores[c].executedCycles >= config.quantumCycles

\* the preemption test of cpuExecutionLoop
QuantumExpired(c) ==
    config.schedulerType = "rr" /\ cpuCores[c].executedCycles >= config.quantumCycles

\* cpuExecutionLoop, after the execute step of one core: retire, else preempt
CheckCore ==
    /\ ~halted
    /\ worker.pc = "check"
    /\ LET c == worker.core
       IN  /\ IF processFinished(c)
              THEN moveToFinished(c)
              ELSE IF QuantumExpired(c)
                   THEN preemptProcess(c)
                   ELSE UNCHANGED <<runningProcesses, readyQueue, cpuCores,
                                    processes, finishedProcesses>>
           /\ worker' = AfterCore("exec", c, "loop")
    /\ UNCHANGED <<memVars, config, isRunning, autoGenerateProcesses,
                   totalProcessesCreated, currentCycle, deallocatedProcesses,
                   facade, threads, halted>>

----------------------------------------------------------------------------
(* The generator (Scheduler::processGenerationLoop) and the facade          *)
(* (MainMenu::run and its command handlers).                                *)

\* instruction counts the generator and screen -s draw:
\* minInstructions + rand() % (maxInstructions - minInstructions + 1)
InstructionCounts == config.minInstructions .. config.maxInstructions

\* memory sizes screen -s accepts: powers of two in [64, 65536]
ScreenSizes == {64, 128}

\* the instruction lists typed at screen -c, after the split at ';'
CustomInputs ==
    { << Instr("DECLARE"), Instr("ADD"), Instr("PRINT") >>,
      << [op |-> "SLEEP", arg |-> 2], Instr("FOR") >>,
      << Instr("HALT"), Instr("VAR") >> }

\* processGenerationLoop, one round: mint Process_<seq>, generate its program,
\* count it and submit it (no memory is allocated)
Generate ==
    /\ ~halted
    /\ autoGenerateProcesses
    /\ Len(processes) < MaxProcs
    /\ \E count \in InstructionCounts :
         processes' = Append(processes,
                        generateInstructions(
                            NewProcess(totalProcessesCreated, count, FALSE), count))
    /\ totalProcessesCreated' = totalProcessesCreated + 1
    /\ addProcess(Len(processes) + 1)
    /\ UNCHANGED <<trace, memVars, config, cpuCores, runningProcesses,
                   finishedProcesses, isRunning, autoGenerateProcesses,
                   currentCycle, deallocatedProcesses, worker, facade, threads, halted>>

\* the common end of screen -s and screen -c: allocate memory for the new
\* process; on failure delete it, else submit it
AllocateAndSubmit(newProcess, memSize) ==
    LET r == allocateMemory(memoryManager, newProcess.processID, memSize)
    IN  /\ memoryManager' = r.mm
        /\ r.mm.allocationFailures <= MaxFailures
        /\ IF r.ok
           THEN /\ Len(processes) < MaxProcs
                /\ processes' = Append(processes, newProcess)
                /\ addProcess(Len(processes) + 1)
           ELSE UNCHANGED <<processes, readyQueue>>

\* handleSpecialCommands, "screen -s <name> <bytes>"
ScreenS ==
    /\ ~halted
    /\ facade = "input"
    /\ \E count \in InstructionCounts, memSize \in ScreenSizes :
         AllocateAndSubmit(
            generateInstructions(
                setMemoryRequirement(NewProcess(totalProcessesCreated, count, FALSE),
                                     memSize, config.memPerFrame),
                count),
            memSize)
    /\ facade' = "sweep"
    /\ UNCHANGED threads
    /\ UNCHANGED <<trace, lastCall, config, cpuCores, runningProcesses,
                   finishedProcesses, isRunning, autoGenerateProcesses,
                   totalProcessesCreated, currentCycle, deallocatedProcesses,
                   worker, halted>>

\* handleSpecialCommands, "screen -c <name> "<instr; ...>"": memSize is 1024
ScreenC ==
    /\ ~halted
    /\ facade = "input"
    /\ \E raw \in CustomInputs :
         AllocateAndSubmit(
            setMemoryRequirement(
                generateSpecificInstructions(
                    NewProcess(totalProcessesCreated, Len(raw), TRUE), raw),
                1024, config.memPerFrame),
            1024)
    /\ facade' = "sweep"
    /\ UNCHANGED threads
    /\ UNCHANGED <<trace, lastCall, config, cpuCores, runningProcesses,
                   finishedProcesses, isRunning, autoGenerateProcesses,
                   totalProcessesCreated, currentCycle, deallocatedProcesses,
                   worker, halted>>

\* handleSchedulerStart -> Scheduler::startProcessGeneration
SchedulerStart ==
    /\ ~halted
    /\ facade = "input"
    /\ autoGenerateProcesses' = TRUE
    /\ facade' = "sweep"
    /\ UNCHANGED threads
    /\ UNCHANGED <<trace, memVars, config, processes, cpuCores, readyQueue,
                   runningProcesses, finishedProcesses, isRunning,
                   totalProcessesCreated, currentCycle, deallocatedProcesses,
                   worker, halted>>

\* handleSchedulerStop -> Scheduler::stopProcessGeneration
SchedulerStop ==
    /\ ~halted
    /\ facade = "input"
    /\ autoGenerateProcesses' = FALSE
    /\ facade' = "sweep"
    /\ UNCHANGED threads
    /\ UNCHANGED <<trace, memVars, config, processes, cpuCores, readyQueue,
                   runningProcesses, finishedProcesses, isRunning,
                   totalProcessesCreated, currentCycle, deallocatedProcesses,
                   worker, halted>>

\* handleExit -> Scheduler::stop, then the command loop ends
Exit ==
    /\ ~halted
    /\ facade = "input"
    /\ isRunning' = FALSE
    /\ autoGenerateProcesses' = FALSE
    /\ facade' = "done"
    /\ UNCHANGED threads
    /\ UNCHANGED <<trace, memVars, config, processes, cpuCores, readyQueue,
                   runningProcesses, finishedProcesses, totalProcessesCreated,
                   currentCycle, deallocatedProcesses, worker, halted>>

\* the loop without the test of the swept ids
RECURSIVE sweepList_Unguarded(_, _, _, _)
sweepList_Unguarded(mm, done, list, writable) ==
    IF list = << >> THEN [mm |-> mm, done |-> done, calls |-> << >>]
    ELSE LET id == processes[Head(list)].processID
             rest == sweepList_Unguarded(deallocateMemory(mm, id, writable).mm,
                                         done \cup {id}, Tail(list), writable)
         IN  [rest EXCEPT !.calls = << id >> \o @]

\* the loop of deallocateFinishedProcesses over the finished list:
\* [mm, done, calls] after the processes of `list' are visited in order;
\* calls lists the ids deallocateMemory was called with; writable holds the
\* frames whose append to the backing store succeeds during the sweep
RECURSIVE sweepList(_, _, _, _)
sweepList(mm, done, list, writable) ==
    IF list = << >> THEN [mm |-> mm, done |-> done, calls |-> << >>]
    ELSE LET id == processes[Head(list)].processID
         IN  IF id \notin done
             THEN LET rest == sweepList(deallocateMemory(mm, id, writable).mm,
                                        done \cup {id}, Tail(list), writable)
                  IN  [rest EXCEPT !.calls = << id >> \o @]
             ELSE sweepList(mm, done, Tail(list), writable)

\* MainMenu::run, top of the loop: Scheduler::deallocateFinishedProcesses
deallocateFinishedProcesses ==
    /\ ~halted
    /\ facade = "sweep"
    /\ \E writable \in {DOMAIN memoryManager.frames, {}} :
         LET r == sweepList(memoryManager, deallocatedProcesses, finishedProcesses,
                            writable)
         IN  /\ memoryManager' = r.mm
             /\ deallocatedProcesses' = r.done
    /\ facade' = "input"
    /\ UNCHANGED threads
    /\ UNCHANGED <<trace, lastCall, config, processes, cpuCores, readyQueue,
                   runningProcesses, finishedProcesses, isRunning,
                   autoGenerateProcesses, totalProcessesCreated, currentCycle,
                   worker, halted>>

----------------------------------------------------------------------------
(* The system specification.                                                *)

\* the configurations: valid by SystemConfig::isValid; the quantum is only
\* varied under rr and the delay only on one core
SysConfigs ==
    { c \in [ numCPUs         : 1 .. MaxCPUs,
              schedulerType   : {"fcfs", "rr"},
              quantumCycles   : 1 .. MaxQuantum,
              minInstructions : {1},
              maxInstructions : {MaxIns},
              delayPerExec    : 0 .. MaxDelay,
              maxOverallMem   : {192},
              memPerFrame     : {64},
              minMemPerProc   : {64},
              maxMemPerProc   : {128} ] :
        /\ (c.schedulerType = "rr" \/ c.quantumCycles = 1)
        /\ (c.numCPUs = 1 \/ c.delayPerExec = 0) }

\* what a call sees of the manager: the totals and the set of free frames
Snapshot(mm) ==
    [ used       |-> mm.totalAllocated,
      free       |-> mm.totalFree,
      freeFrames |-> { n \in DOMAIN mm.frames : mm.frames[n].isFree } ]

\* nothing observed
NoTrace ==
    [ dispatches |-> << >>, preemptions |-> << >>, retiredAt |-> << >>,
      coresUsed |-> << >>, dispatchedAt |-> << >>, executedBefore |-> << >>,
      spawned |-> 0, startsIgnored |-> 0, stopsRepeated |-> 0,
      nullSubmits |-> 0, found |-> [name |-> -1, result |-> 0] ]

\* lastCall, the record of the latest call on the manager: the operation,
\* its pid, its result, the snapshot taken before it and, when the call is a
\* deallocate that directly follows a successful allocate of the same pid,
\* the snapshot taken before that allocate
NoSnapshot == [used |-> 0, free |-> 0, freeFrames |-> {}]

NoCall ==
    [ op |-> "none", pid |-> -1, ok |-> FALSE, pre |-> NoSnapshot,
      undoes |-> FALSE, before |-> NoSnapshot ]

Called(op, pid, ok) ==
    LET undoes == /\ op = "dealloc"
                  /\ lastCall.op = "alloc" /\ lastCall.ok /\ lastCall.pid = pid
    IN  [ op |-> op, pid |-> pid, ok |-> ok, pre |-> Snapshot(memoryManager),
          undoes |-> undoes,
          before |-> IF undoes THEN lastCall.pre ELSE NoSnapshot ]

\* the state after handleInitialize: the memory manager (PAGING, FIRST_FIT) and
\* the scheduler are constructed and start() has spawned the cycle worker
Init ==
    /\ config \in SysConfigs
    /\ memoryManager = NewMemoryManager(config.maxOverallMem, config.memPerFrame,
                                        config.minMemPerProc, config.maxMemPerProc,
                                        "PAGING", "FIRST_FIT")
    /\ lastCall = NoCall
    /\ processes = << >>
    /\ cpuCores = [c \in 0 .. config.numCPUs - 1 |-> CPUCore]
    /\ readyQueue = << >>
    /\ runningProcesses = << >>
    /\ finishedProcesses = << >>
    /\ isRunning = TRUE
    /\ autoGenerateProcesses = FALSE
    /\ totalProcessesCreated = 0
    /\ currentCycle = 0
    /\ deallocatedProcesses = {}
    /\ worker = [pc |-> "loop", core |-> 0]
    /\ facade = "sweep"
    /\ halted = FALSE
    /\ threads = << >>
    /\ trace = NoTrace

Next ==
    \/ CycleBegin /\ UNCHANGED trace
    \/ WorkerExit /\ UNCHANGED trace
    \/ assignProcessesToCores /\ UNCHANGED trace
    \/ ExecuteCore /\ UNCHANGED trace
    \/ CheckCore /\ UNCHANGED trace
    \/ Generate
    \/ ScreenS
    \/ ScreenC
    \/ SchedulerStart
    \/ SchedulerStop
    \/ Exit
    \/ deallocateFinishedProcesses

Spec == Init /\ [][Next]_vars

----------------------------------------------------------------------------
(* The memory manager alone: any mode, any policy, any sequence of calls.   *)

\* SystemConfig(): the defaults
DefaultConfig ==
    [ numCPUs |-> 4, schedulerType |-> "fcfs", quantumCycles |-> 5,
      minInstructions |-> 100, maxInstructions |-> 1000, delayPerExec |-> 0,
      maxOverallMem |-> 1024, memPerFrame |-> 16,
      minMemPerProc |-> 16, maxMemPerProc |-> 128 ]

\* no scheduler has been started and no process exists
NoScheduler ==
    /\ config = DefaultConfig
    /\ processes = << >>
    /\ cpuCores = << >>
    /\ readyQueue = << >>
    /\ runningProcesses = << >>
    /\ finishedProcesses = << >>
    /\ isRunning = FALSE
    /\ autoGenerateProcesses = FALSE
    /\ totalProcessesCreated = 0
    /\ currentCycle = 0
    /\ deallocatedProcesses = {}
    /\ worker = [pc |-> "exited", core |-> 0]
    /\ facade = "done"
    /\ halted = FALSE
    /\ threads = << >>
    /\ trace = NoTrace

\* the managers of SpecMem: MaxMem KiB; paged in frames of 2 or 3 KiB (so
\* that a frame count and a last frame can be partial) with 2 to 4 KiB per
\* process; contiguous with 2 to 4 KiB per process under FirstFit and 3 to
\* 4 KiB under the other strategies, the vector of blocks growing by doubling
\* or by half
MemManagers ==
    { NewMemoryManager(MaxMem, f, 2, 4, "PAGING", "FIRST_FIT") : f \in {2, 3} }
    \cup
    { NewMemoryManager(MaxMem, 2, 2, 4, "FLAT", "FIRST_FIT") }
    \cup
    { NewMemoryManager(MaxMem, 2, 3, 4, "FLAT", st) :
        st \in {"BEST_FIT", "WORST_FIT"} }
    \cup
    { [ NewMemoryManager(MaxMem, 2, 3, 4, "FLAT", "FIRST_FIT")
          EXCEPT !.blocksGrowth = "x1.5" ] }

InitMem ==
    /\ memoryManager \in MemManagers
    /\ lastCall = NoCall
    /\ NoScheduler

\* a call allocateMemory(pid, name, size).  A call that writes through the
\* dangling reference either loses the writes or is trapped, which ends the
\* program.
Allocate ==
    /\ ~halted
    /\ \E pid \in 0 .. MaxPid, size \in 0 .. MaxRequest :
         LET r == allocateMemory(memoryManager, pid, size)
         IN  /\ r.mm.allocationFailures <= MaxFailures
             /\ r.mm.blocksCapacity <= MaxCapacity
             /\ \/ /\ memoryManager' = r.mm
                   /\ lastCall' = Called("alloc", pid, r.ok)
                   /\ UNCHANGED halted
                \/ /\ r.moved
                   /\ halted' = TRUE
                   /\ UNCHANGED memVars
    /\ UNCHANGED <<config, processes, cpuCores, readyQueue, runningProcesses,
                   finishedProcesses, isRunning, autoGenerateProcesses,
                   totalProcessesCreated, currentCycle, deallocatedProcesses,
                   worker, facade, threads, trace>>

\* a call deallocateMemory(pid)
Deallocate ==
    /\ ~halted
    /\ \E pid \in 0 .. MaxPid, writable \in SUBSET DOMAIN memoryManager.frames :
      LET r == deallocateMemory(memoryManager, pid, writable)
      IN  /\ r.mm.pagesPagedOut <= MaxPagedOut
          /\ memoryManager' = r.mm
          /\ lastCall' = Called("dealloc", pid, r.ok)
          /\ UNCHANGED <<config, processes, cpuCores, readyQueue, runningProcesses,
                         finishedProcesses, isRunning, autoGenerateProcesses,
                         totalProcessesCreated, currentCycle,
                         deallocatedProcesses, worker, facade, halted, trace,
                         threads>>

NextMem == Allocate \/ Deallocate

SpecMem == InitMem /\ [][NextMem]_vars

----------------------------------------------------------------------------
(* The interpreter alone: one process of any of the three kinds, stepped    *)
(* by executeInstruction until it is finished.                              *)

\* the word sequences generateRandomInstructions can draw, up to
\* MaxRandomLen; ADD, SUBTRACT and DECLARE step the counters as PRINT does
RandomDraws ==
    UNION { [1 .. n -> {"PRINT", "SLEEP", "FOR"}] : n \in 1 .. MaxRandomLen }

InitProc ==
    /\ memoryManager = NewMemoryManager(DefaultConfig.maxOverallMem,
                                        DefaultConfig.memPerFrame,
                                        DefaultConfig.minMemPerProc,
                                        DefaultConfig.maxMemPerProc,
                                        "PAGING", "FIRST_FIT")
    /\ lastCall = NoCall
    /\ NoScheduler

\* Process(name, id, count, arrival) then generateInstructions(count)
CreateAuto ==
    /\ processes = << >>
    /\ \E count \in 1 .. MaxIns :
         processes' = << generateInstructions(NewProcess(0, count, FALSE), count) >>
    /\ UNCHANGED <<trace, memVars, config, cpuCores, readyQueue, runningProcesses,
                   finishedProcesses, isRunning, autoGenerateProcesses,
                   totalProcessesCreated, currentCycle, deallocatedProcesses,
                   worker, facade, threads, halted>>

\* Process(name, id, count, arrival) then generateRandomInstructions(count)
CreateRandom ==
    /\ processes = << >>
    /\ \E drawn \in RandomDraws :
         processes' = << generateRandomInstructions(
                            NewProcess(0, Len(drawn), FALSE), drawn) >>
    /\ UNCHANGED <<trace, memVars, config, cpuCores, readyQueue, runningProcesses,
                   finishedProcesses, isRunning, autoGenerateProcesses,
                   totalProcessesCreated, currentCycle, deallocatedProcesses,
                   worker, facade, threads, halted>>

\* Process(name, id, count, arrival, customInstructions)
CreateCustom ==
    /\ processes = << >>
    /\ \E raw \in CustomInputs :
         processes' = << generateSpecificInstructions(
                            NewProcess(0, Len(raw), TRUE), raw) >>
    /\ UNCHANGED <<trace, memVars, config, cpuCores, readyQueue, runningProcesses,
                   finishedProcesses, isRunning, autoGenerateProcesses,
                   totalProcessesCreated, currentCycle, deallocatedProcesses,
                   worker, facade, threads, halted>>

\* one call of executeInstruction on the process, while it is not finished
ProcessStep ==
    /\ ~halted
    /\ processes # << >>
    /\ ~isFinished(processes[1])
    /\ \E o \in executeInstruction(processes[1]) :
         /\ processes' = << o.proc >>
         /\ halted' = o.fault
    /\ UNCHANGED <<trace, memVars, config, cpuCores, readyQueue, runningProcesses,
                   finishedProcesses, isRunning, autoGenerateProcesses,
                   totalProcessesCreated, currentCycle, deallocatedProcesses,
                   worker, facade, threads>>

NextProc == CreateAuto \/ CreateRandom \/ CreateCustom \/ ProcessStep

SpecProc == InitProc /\ [][NextProc]_vars

----------------------------------------------------------------------------
(* Scheduler properties, checked under Spec.                                *)

\* the cores that reference process p
CoresOf(p) == { c \in Cores : cpuCores[c].currentProcess = p }

\* the Process objects created so far
Procs == 1 .. Len(processes)

\* C1: in every reachable state a core is idle exactly when it holds no
\* process, and no process is referenced by more than one core.
C1_CoreIdleIffEmpty ==
    /\ \A c \in Cores : cpuCores[c].isIdle <=> (cpuCores[c].currentProcess = 0)
    /\ \A p \in Procs : Cardinality(CoresOf(p)) <= 1

\* two cores are busy at once, each with its own process
C1_Witness ==
    \E c1, c2 \in Cores :
        /\ c1 # c2
        /\ ~cpuCores[c1].isIdle /\ ~cpuCores[c2].isIdle
        /\ cpuCores[c1].currentProcess # cpuCores[c2].currentProcess
        /\ cpuCores[c1].executedCycles > 0

\* C2: no process is in the ready queue and in the running list at once, and
\* no process appears twice in the running list.
C2_QueueRunningDisjoint ==
    /\ Range(readyQueue) \cap Range(runningProcesses) = {}
    /\ \A i, j \in 1 .. Len(runningProcesses) :
         runningProcesses[i] = runningProcesses[j] => i = j

\* a preempted process waits in the queue while another one is running
C2_Witness ==
    /\ runningProcesses # << >>
    /\ \E i \in 1 .. Len(readyQueue) :
         processes[readyQueue[i]].instructionsExecuted > 0

\* C3: under Round-Robin, when the check of a core finds a process that is not
\* finished and has reached quantumCycles on this dispatch, the process is
\* set to Ready, appended at the tail of the ready queue and the core is
\* released; a process found finished is retired to the finished list, also
\* at the quantum boundary, and a retired process is never requeued.
C3_PreemptAtQuantum ==
    [][ /\ ( /\ worker.pc = "check"
             /\ worker' # worker
             /\ config.schedulerType = "rr" )
          => LET c == worker.core
                 p == cpuCores[c].currentProcess
             IN  /\ ( /\ ~isFinished(processes[p])
                      /\ cpuCores[c].executedCycles >= config.quantumCycles )
                    => /\ processes'[p].currentState = "READY"
                       /\ readyQueue' = Append(readyQueue, p)
                       /\ p \notin Range(runningProcesses')
                       /\ cpuCores'[c].isIdle
                       /\ cpuCores'[c].currentProcess = 0
                 /\ isFinished(processes[p])
                    => /\ processes'[p].currentState = "FINISHED"
                       /\ finishedProcesses' = Append(finishedProcesses, p)
                       /\ readyQueue' = readyQueue
                       /\ cpuCores'[c].isIdle
        /\ \A p \in Range(finishedProcesses) : p \notin Range(readyQueue')
      ]_vars

\* a process that ran its whole program in one dispatch of exactly
\* quantumCycles instructions is in the finished list, and a preempted one is
\* back in the queue
C3_Witness ==
    /\ config.schedulerType = "rr"
    /\ \E i \in 1 .. Len(finishedProcesses) :
         LET p == processes[finishedProcesses[i]]
         IN  /\ ~p.isCustom
             /\ Len(p.instructions) = config.quantumCycles
    /\ \E i \in 1 .. Len(readyQueue) :
         processes[readyQueue[i]].instructionsExecuted > 0

\* C4: under FCFS a process on a core stays on that core until it is
\* Finished, and is never put back in the ready queue.
C4_FcfsNeverPreempts ==
    [][ config.schedulerType = "fcfs"
        => /\ \A c \in Cores :
                LET p == cpuCores[c].currentProcess
                IN  p # 0 =>
                      /\ p \notin Range(readyQueue')
                      /\ \/ cpuCores'[c].currentProcess = p
                         \/ /\ processes'[p].currentState = "FINISHED"
                            /\ isFinished(processes'[p])
                            /\ p \in Range(finishedProcesses')
           /\ \A p \in Range(finishedProcesses) : p \notin Range(readyQueue')
      ]_vars

\* under FCFS a process has passed the check with its per-dispatch counter
\* beyond quantumCycles and is still on its core
C4_Witness ==
    /\ config.schedulerType = "fcfs"
    /\ worker.pc = "loop"
    /\ \E c \in Cores :
         /\ cpuCores[c].currentProcess # 0
         /\ cpuCores[c].executedCycles > config.quantumCycles
         /\ ~isFinished(processes[cpuCores[c].currentProcess])
    /\ finishedProcesses # << >>

\* C6: a Finished process has assigned core -1, and a Running process is
\* referenced by exactly one core.
C6_StateMatchesCore ==
    \A p \in Procs :
        /\ processes[p].currentState = "FINISHED" => processes[p].assignedCore = -1
        /\ processes[p].currentState = "RUNNING" => Cardinality(CoresOf(p)) = 1

\* one process has been retired while another is running on a core
C6_Witness ==
    /\ \E p \in Procs : processes[p].currentState = "FINISHED"
                        /\ p \in Range(finishedProcesses)
    /\ \E p \in Procs : processes[p].currentState = "RUNNING"
                        /\ processes[p].assignedCore \in CoresOf(p)

----------------------------------------------------------------------------
(* Interpreter property, checked under SpecProc.                            *)

\* C5: for every process, executed + remaining equals the current length of
\* its program, whatever produced the program and however far it has run
\* (a FOR expansion is one step of the model).
C5_CountersMatchProgram ==
    \A p \in Procs :
        processes[p].instructionsExecuted + processes[p].remainingInstructions
            = Len(processes[p].instructions)

\* a process whose program a FOR has lengthened has run to its end
C5_Witness ==
    \E p \in Procs :
        /\ Len(processes[p].instructions) > processes[p].totalInstructions + 1
        /\ processes[p].instructionsExecuted > processes[p].totalInstructions
        /\ isFinished(processes[p])

----------------------------------------------------------------------------
(* Memory manager properties, checked under SpecMem.                        *)

Paged == memoryManager.allocationType = "PAGING"

Frames == DOMAIN memoryManager.frames

Records == DOMAIN memoryManager.processMemoryMap

\* the positions of frame n in the frame list of pid's record
ListedAt(pid, n) ==
    { i \in 1 .. Len(memoryManager.processMemoryMap[pid].frameNumbers) :
        memoryManager.processMemoryMap[pid].frameNumbers[i] = n }

RECURSIVE SumOver(_, _)
SumOver(f, S) ==
    IF S = {} THEN 0
    ELSE LET x == CHOOSE y \in S : TRUE IN f[x] + SumOver(f, S \ {x})

\* the sum of frame.size over the non-free frames
UsedFrameSizes ==
    SumOver([n \in Frames |-> memoryManager.frames[n].size],
            { n \in Frames : ~memoryManager.frames[n].isFree })

TotalAllocatedOfRecords ==
    SumOver([p \in Records |-> memoryManager.processMemoryMap[p].memoryAllocated], Records)

TotalRequiredOfRecords ==
    SumOver([p \in Records |-> memoryManager.processMemoryMap[p].memoryRequired], Records)

\* C7: in paged mode every non-free frame is listed, once, in the frame list
\* of exactly one record, the record of the frame's owner, and every free
\* frame is listed in none.
C7_FramesPartitioned ==
    Paged =>
      \A n \in Frames :
        IF memoryManager.frames[n].isFree
        THEN \A pid \in Records : ListedAt(pid, n) = {}
        ELSE /\ memoryManager.frames[n].processID \in Records
             /\ \A pid \in Records :
                  Cardinality(ListedAt(pid, n)) =
                    IF pid = memoryManager.frames[n].processID THEN 1 ELSE 0

\* two processes hold frames and a frame freed by a third lies below them
C7_Witness ==
    /\ Paged
    /\ Cardinality(Records) = 2
    /\ lastCall.op = "alloc" /\ lastCall.ok
    /\ \E n, m \in Frames :
         /\ n < m
         /\ memoryManager.frames[n].isFree
         /\ ~memoryManager.frames[m].isFree
    /\ \E pid \in Records :
         memoryManager.processMemoryMap[pid].numPages = 2

\* C8 as stated: in paged mode the sum of frame.size over the non-free frames
\* equals the sum of record.allocated over the records.
C8_Original == Paged => UsedFrameSizes = TotalAllocatedOfRecords

\* C8 as it holds: in paged mode the sum of frame.size over the non-free
\* frames equals the sum of record.required (the clamped request) over the
\* records, and never exceeds the sum of record.allocated (pages * frame size).
C8_FrameSizesSumToRequired ==
    Paged => /\ UsedFrameSizes = TotalRequiredOfRecords
             /\ UsedFrameSizes <= TotalAllocatedOfRecords
             /\ TotalAllocatedOfRecords = memoryManager.totalAllocated

\* a record whose last frame is partly filled next to one that fills its frames
C8_Witness ==
    /\ Paged
    /\ \E p, q \in Records :
         /\ memoryManager.processMemoryMap[p].memoryAllocated
              > memoryManager.processMemoryMap[p].memoryRequired
         /\ memoryManager.processMemoryMap[q].memoryAllocated
              = memoryManager.processMemoryMap[q].memoryRequired
         /\ memoryManager.processMemoryMap[p].numPages = 2

NoAdjacentFree(blocks) ==
    \A i \in 1 .. Len(blocks) - 1 : ~(blocks[i].isFree /\ blocks[i + 1].isFree)

\* C9: in contiguous mode the block list is a sorted, gap-free partition of
\* [0, total): it starts at 0, each block starts where the previous one ends,
\* the last one ends at total and the sizes add up to total; and after a
\* deallocate no two adjacent blocks are both free.
C9_BlocksPartition ==
    ~Paged =>
      LET blocks == memoryManager.blocks
      IN  /\ Len(blocks) >= 1
          /\ blocks[1].startAddress = 0
          /\ \A i \in 1 .. Len(blocks) - 1 :
               /\ blocks[i + 1].startAddress = blocks[i].startAddress + blocks[i].size
               /\ blocks[i].startAddress < blocks[i + 1].startAddress
          /\ blocks[Len(blocks)].startAddress + blocks[Len(blocks)].size
               = memoryManager.maxMemorySize
          /\ SumOver([i \in 1 .. Len(blocks) |-> blocks[i].size], 1 .. Len(blocks))
               = memoryManager.maxMemorySize
          /\ lastCall.op = "dealloc" => NoAdjacentFree(blocks)

\* C10: a successful allocate(pid, name, k) followed at once by
\* deallocate(pid) leaves the used and free totals as they were before the
\* allocate, and in paged mode the same set of free frames.
C10_AllocateDeallocateRoundTrip ==
    lastCall.undoes =>
        /\ lastCall.ok
        /\ memoryManager.totalAllocated = lastCall.before.used
        /\ memoryManager.totalFree = lastCall.before.free
        /\ Snapshot(memoryManager).freeFrames = lastCall.before.freeFrames

\* the pair has run in paged mode while another process held frames, the
\* allocation taking two frames with a frame of the other process between
\* them
C10_Witness ==
    /\ Paged
    /\ lastCall.undoes
    /\ memoryManager.totalAllocated > 0
    /\ lastCall.pre.used - lastCall.before.used = 2 * memoryManager.memPerFrame
    /\ \E n, m \in lastCall.before.freeFrames :
         /\ n + 1 < m
         /\ n \notin lastCall.pre.freeFrames
         /\ m \notin lastCall.pre.freeFrames


----------------------------------------------------------------------------
(* Memory statistics (getExternalFragmentation, getInternalFragmentation).  *)

FreeBlocks(mm) == { i \in 1 .. Len(mm.blocks) : mm.blocks[i].isFree }

\* the free total and the largest free block the scan of the block list finds
TotalFreeInBlocks(mm) ==
    SumOver([i \in 1 .. Len(mm.blocks) |-> mm.blocks[i].size], FreeBlocks(mm))

LargestFreeBlock(mm) ==
    IF FreeBlocks(mm) = {} THEN 0
    ELSE LET i == CHOOSE k \in FreeBlocks(mm) :
                    \A j \in FreeBlocks(mm) : mm.blocks[k].size >= mm.blocks[j].size
         IN  mm.blocks[i].size

\* size_t MemoryManager::getExternalFragmentation()
getExternalFragmentation(mm) ==
    IF mm.allocationType # "FLAT" THEN 0
    ELSE IF TotalFreeInBlocks(mm) = 0 THEN 0
    ELSE IF LargestFreeBlock(mm) > TotalFreeInBlocks(mm) THEN 0
    ELSE TotalFreeInBlocks(mm) - LargestFreeBlock(mm)

\* size_t MemoryManager::getInternalFragmentation()
getInternalFragmentation(mm) ==
    IF mm.allocationType # "PAGING" THEN 0
    ELSE SumOver([p \in DOMAIN mm.processMemoryMap |->
                    IF mm.processMemoryMap[p].memoryAllocated
                         > mm.processMemoryMap[p].memoryRequired
                    THEN mm.processMemoryMap[p].memoryAllocated
                           - mm.processMemoryMap[p].memoryRequired
                    ELSE 0],
                 DOMAIN mm.processMemoryMap)

\* C11 as stated: after any sequence of allocate and deallocate calls the
\* used total stays within [0, total], the free total does not go below 0,
\* and both fragmentation figures are non-negative.
C11_TotalsWithinBounds ==
    /\ 0 <= memoryManager.totalAllocated
    /\ memoryManager.totalAllocated <= memoryManager.maxMemorySize
    /\ 0 <= memoryManager.totalFree
    /\ getExternalFragmentation(memoryManager) >= 0
    /\ getInternalFragmentation(memoryManager) >= 0


----------------------------------------------------------------------------
(* Identity, sweep and memory lifecycle, checked under Spec.                *)

\* a step of MainMenu::run that is the sweep (deallocateFinishedProcesses)
SweepStep == facade = "sweep" /\ facade' = "input"

\* the processes waiting in the ready queue or held by a core
LiveProcs ==
    (Range(readyQueue) \cup { cpuCores[c].currentProcess : c \in Cores }) \ {0}

\* the finished processes whose id the sweep has recorded
AllFinishedSwept ==
    \A p \in Range(finishedProcesses) : processes[p].processID \in deallocatedProcesses

\* C12 as stated: every process created, by the generator or by screen -s /
\* screen -c, has an id larger than the ids of all processes created before it
\* (processes is in creation order).
C12_IdsStrictlyIncreasing ==
    \A i, j \in Procs : i < j => processes[i].processID < processes[j].processID

\* C13 as stated: when the sweep returns, no process of the finished list has a
\* memory record left in the memory manager (a record under an id that a live
\* process carries as well is taken to be the live one's and not counted).
C13_SweepFreesEveryFinished ==
    [][ SweepStep =>
          \A p \in Range(finishedProcesses') :
             \/ \E q \in LiveProcs : processes[q].processID = processes[p].processID
             \/ processes'[p].processID \notin DOMAIN memoryManager'.processMemoryMap ]_vars

\* C14 as stated: a process that was given memory at its creation keeps its
\* memory record for as long as it is in the ready queue or on a core.
C14_RecordHeldUntilRetired ==
    \A p \in LiveProcs :
        processes[p].memoryRequired > 0 =>
            processes[p].processID \in DOMAIN memoryManager.processMemoryMap

\* C15: the sweep calls deallocate only with ids it has not swept before, with
\* each id once, and records them in a set that only grows, so over any
\* sequence of sweeps deallocate is invoked at most once per id; and a sweep
\* that finds every finished process already swept (a second call with no
\* retirement in between) changes neither the memory manager nor the scheduler.
C15_SweepIdempotent ==
    [][ SweepStep =>
          LET r == sweepList(memoryManager, deallocatedProcesses, finishedProcesses, {})
          IN  /\ \A i \in 1 .. Len(r.calls) :
                   /\ r.calls[i] \notin deallocatedProcesses
                   /\ \A j \in 1 .. Len(r.calls) : r.calls[j] = r.calls[i] => j = i
              /\ deallocatedProcesses' = deallocatedProcesses \cup Range(r.calls)
              /\ AllFinishedSwept =>
                   /\ memoryManager' = memoryManager
                   /\ deallocatedProcesses' = deallocatedProcesses
                   /\ UNCHANGED <<processes, cpuCores, readyQueue, runningProcesses,
                                  finishedProcesses, isRunning, autoGenerateProcesses,
                                  totalProcessesCreated, currentCycle>> ]_vars

\* the sweep is about to run again with nothing retired since it last ran:
\* every finished process is in the swept set, and a process that is still
\* live holds a memory record under an id the set contains
C15_Witness ==
    /\ facade = "sweep"
    /\ finishedProcesses # << >>
    /\ AllFinishedSwept
    /\ \E p \in LiveProcs :
         /\ processes[p].processID \in deallocatedProcesses
         /\ processes[p].processID \in DOMAIN memoryManager.processMemoryMap


----------------------------------------------------------------------------
(* The scheduler alone: Scheduler(cfg) is constructed, processes are        *)
(* submitted with addProcess, start() spawns the cycle worker, stop() may   *)
(* end it.  An observer notes in trace what the worker does.                *)

\* the configurations of SpecSched, valid by SystemConfig::isValid; the
\* quantum is only varied under rr
SchedConfigs ==
    { c \in [ numCPUs         : 1 .. MaxCPUs,
              schedulerType   : {"fcfs", "rr"},
              quantumCycles   : 1 .. MaxQuantum,
              minInstructions : {1},
              maxInstructions : {MaxSchedIns},
              delayPerExec    : 0 .. MaxDelay,
              maxOverallMem   : {192},
              memPerFrame     : {64},
              minMemPerProc   : {64},
              maxMemPerProc   : {128} ] :
        c.schedulerType = "rr" \/ c.quantumCycles = 1 }

\* the programs submitted: the generator's pattern at every length the
\* configuration allows, and the custom instruction lists
SchedPrograms(id) ==
    { generateInstructions(NewProcess(id, count, FALSE), count) :
        count \in config.minInstructions .. config.maxInstructions }
    \cup
    { generateSpecificInstructions(NewProcess(id, Len(raw), TRUE), raw) :
        raw \in CustomInputs }

\* Scheduler(cfg): the cores are created idle, nothing runs
InitSched ==
    /\ config \in SchedConfigs
    /\ memoryManager = NewMemoryManager(config.maxOverallMem, config.memPerFrame,
                                        config.minMemPerProc, config.maxMemPerProc,
                                        "PAGING", "FIRST_FIT")
    /\ lastCall = NoCall
    /\ processes = << >>
    /\ cpuCores = [c \in 0 .. config.numCPUs - 1 |-> CPUCore]
    /\ readyQueue = << >>
    /\ runningProcesses = << >>
    /\ finishedProcesses = << >>
    /\ isRunning = FALSE
    /\ autoGenerateProcesses = FALSE
    /\ totalProcessesCreated = 0
    /\ currentCycle = 0
    /\ deallocatedProcesses = {}
    /\ worker = [pc |-> "none", core |-> 0]
    /\ facade = "done"
    /\ halted = FALSE
    /\ threads = << >>
    /\ trace = [ NoTrace EXCEPT
                   !.dispatchedAt = [c \in 0 .. config.numCPUs - 1 |-> 0],
                   !.executedBefore = [c \in 0 .. config.numCPUs - 1 |-> 0] ]

\* a process is created as the generator creates it (id from the counter, log
\* file initialized) and submitted with addProcess, before start()
Submit ==
    /\ worker.pc = "none"
    /\ Len(processes) < MaxSchedProcs
    /\ \E newProcess \in SchedPrograms(totalProcessesCreated) :
         processes' = Append(processes, newProcess)
    /\ totalProcessesCreated' = totalProcessesCreated + 1
    /\ addProcess(Len(processes) + 1)
    /\ trace' = [ trace EXCEPT !.preemptions = Append(@, 0),
                               !.retiredAt = Append(@, 0),
                               !.coresUsed = Append(@, {}) ]
    /\ UNCHANGED <<memVars, config, cpuCores, runningProcesses,
                   finishedProcesses, isRunning, autoGenerateProcesses,
                   currentCycle, deallocatedProcesses, worker, facade, threads, halted>>

\* the calls made so far that the interface is only expected to tolerate: a
\* start() while started, a stop() while stopped, an addProcess(nullptr)
ExtraCalls == trace.startsIgnored + trace.stopsRepeated + trace.nullSubmits

\* start() without the test of isRunning: a worker is spawned by every call
start_Unguarded ==
    /\ trace.spawned < MaxSpawned
    /\ isRunning \/ worker.pc \in {"none", "exited"}
    /\ isRunning => ExtraCalls < MaxExtraCalls
    /\ isRunning' = TRUE
    /\ worker' = [pc |-> "loop", core |-> 0]
    /\ trace' = [trace EXCEPT !.spawned = @ + 1,
                              !.startsIgnored = IF isRunning THEN @ + 1 ELSE @]
    /\ UNCHANGED <<memVars, config, processes, cpuCores, readyQueue,
                   runningProcesses, finishedProcesses, autoGenerateProcesses,
                   totalProcessesCreated, currentCycle, deallocatedProcesses,
                   facade, threads, halted>>

\* Scheduler::start(): if isRunning is clear it is set and a cycle worker is
\* spawned, otherwise nothing is done.  One worker is followed: start() is
\* not called between stop() and the exit of the worker stop() has ended.
start ==
    /\ IF isRunning
       THEN /\ ExtraCalls < MaxExtraCalls
            /\ trace' = [trace EXCEPT !.startsIgnored = @ + 1]
            /\ UNCHANGED <<isRunning, worker>>
       ELSE /\ worker.pc \in {"none", "exited"}
            /\ trace.spawned < MaxSpawned
            /\ isRunning' = TRUE
            /\ worker' = [pc |-> "loop", core |-> 0]
            /\ trace' = [trace EXCEPT !.spawned = @ + 1]
    /\ UNCHANGED <<memVars, config, processes, cpuCores, readyQueue,
                   runningProcesses, finishedProcesses, autoGenerateProcesses,
                   totalProcessesCreated, currentCycle, deallocatedProcesses,
                   facade, threads, halted>>

\* Scheduler::stop(): both flags are cleared, whatever they were
stop ==
    /\ isRunning \/ ExtraCalls < MaxExtraCalls
    /\ isRunning' = FALSE
    /\ autoGenerateProcesses' = FALSE
    /\ trace' = IF isRunning THEN trace
                ELSE [trace EXCEPT !.stopsRepeated = @ + 1]
    /\ UNCHANGED <<memVars, config, processes, cpuCores, readyQueue,
                   runningProcesses, finishedProcesses, totalProcessesCreated,
                   currentCycle, deallocatedProcesses, worker, facade, threads, halted>>

\* what the observer notes when the admit step has put a process on a core
NoteDispatch ==
    LET c == worker.core
        p == cpuCores'[c].currentProcess
    IN  IF cpuCores[c].isIdle /\ ~cpuCores'[c].isIdle
        THEN [ trace EXCEPT
                 !.dispatches = Append(@, p),
                 !.coresUsed[p] = @ \cup {c},
                 !.dispatchedAt[c] = currentCycle,
                 !.executedBefore[c] = processes[p].instructionsExecuted ]
        ELSE trace

\* what the observer notes when the check step has retired or preempted
NoteCheck ==
    LET p == cpuCores[worker.core].currentProcess
    IN  IF Len(finishedProcesses') > Len(finishedProcesses)
        THEN [ trace EXCEPT !.retiredAt[p] = currentCycle ]
        ELSE IF Len(readyQueue') > Len(readyQueue)
             THEN [ trace EXCEPT !.preemptions[p] = @ + 1 ]
             ELSE trace

\* SpecSched: start() is called once and stop() while the worker runs
NextSched ==
    \/ Submit
    \/ start /\ worker.pc = "none"
    \/ stop /\ isRunning
    \/ CycleBeginUpTo(MaxSchedCycle) /\ UNCHANGED trace
    \/ WorkerExit /\ UNCHANGED trace
    \/ assignProcessesToCores /\ trace' = NoteDispatch
    \/ ExecuteCore /\ UNCHANGED trace
    \/ CheckCore /\ trace' = NoteCheck

SpecSched == InitSched /\ [][NextSched]_vars


----------------------------------------------------------------------------
(* Scheduling scenarios and timing, checked under SpecSched.                *)

\* the worker has completed cycle k
CycleDone(k) ==
    \/ currentCycle > k
    \/ currentCycle = k /\ worker.pc \in {"loop", "exited"}

\* process p was retired: it is Finished and in the finished list
Retired(p) ==
    processes[p].currentState = "FINISHED" /\ p \in Range(finishedProcesses)

\* the program of p has no SLEEP ahead of another instruction
NoSleepWait(p) ==
    \A i \in 1 .. Len(processes[p].instructions) - 1 :
        processes[p].instructions[i].op # "SLEEP"

IsPrefix(a, b) == Len(a) <= Len(b) /\ a = SubSeq(b, 1, Len(a))

\* the sum of the program lengths of the submitted processes
SumOfLengths == SumOver([p \in Procs |-> processes[p].totalInstructions], Procs)

\* the cycles a program without waits needs on a core of its own: one per
\* instruction and delayPerExec between two instructions; one cycle if empty
CyclesNeeded(p) ==
    IF processes[p].totalInstructions = 0 THEN 1
    ELSE processes[p].totalInstructions
           + (processes[p].totalInstructions - 1) * config.delayPerExec

\* two cores, rr, quantum 2, no delay; A and B of 6 instructions each
Scenario16 ==
    /\ worker.pc # "none"
    /\ config.numCPUs = 2 /\ config.schedulerType = "rr"
    /\ config.quantumCycles = 2 /\ config.delayPerExec = 0
    /\ Len(processes) = 2
    /\ \A p \in Procs : processes[p].totalInstructions = 6 /\ NoSleepWait(p)

\* C16 as stated: in that scenario both are Finished after 6 cycles, they run
\* on distinct cores and neither is ever preempted.
C16_Original ==
    Scenario16 =>
        /\ CycleDone(6) => \A p \in Procs : Retired(p)
        /\ trace.coresUsed[1] \cap trace.coresUsed[2] = {}
        /\ \A p \in Procs : trace.preemptions[p] = 0

\* C16 as it holds: both are retired in cycle 6, A only ever on core 0 and B
\* only on core 1, and each is preempted twice, in cycles 2 and 4, when its
\* executed count on the dispatch reaches the quantum.
C16_FinishAfterSixPreemptedTwice ==
    Scenario16 =>
        /\ CycleDone(6) => \A p \in Procs : Retired(p)
        /\ \A p \in Procs : Retired(p) => trace.retiredAt[p] = 6
        /\ trace.coresUsed[1] \subseteq {0}
        /\ trace.coresUsed[2] \subseteq {1}
        /\ \A p \in Procs :
             /\ trace.preemptions[p] <= 2
             /\ CycleDone(2) => trace.preemptions[p] >= 1
             /\ CycleDone(4) => trace.preemptions[p] = 2

\* the scenario has run to the end of cycle 6
C16_Witness ==
    /\ Scenario16
    /\ currentCycle = 6
    /\ \A p \in Procs : Retired(p)
    /\ trace.preemptions = << 2, 2 >>
    /\ trace.coresUsed = << {0}, {1} >>

\* one core, rr, quantum 2; A then B of 4 instructions each
Scenario17 ==
    /\ worker.pc # "none"
    /\ config.numCPUs = 1 /\ config.schedulerType = "rr"
    /\ config.quantumCycles = 2
    /\ Len(processes) = 2
    /\ \A p \in Procs : processes[p].totalInstructions = 4 /\ NoSleepWait(p)

\* C17: in that scenario the dispatches are A, B, A, B, each process is
\* preempted exactly once, and with the default delay of 0 both are Finished
\* after 8 cycles (A is retired in cycle 6, B in cycle 8).
C17_AlternateAndFinishByEight ==
    Scenario17 =>
        /\ IsPrefix(trace.dispatches, << 1, 2, 1, 2 >>)
        /\ \A p \in Procs :
             /\ trace.preemptions[p] <= 1
             /\ Retired(p) => trace.preemptions[p] = 1
        /\ (\A p \in Procs : Retired(p)) => trace.dispatches = << 1, 2, 1, 2 >>
        /\ config.delayPerExec = 0 =>
             /\ CycleDone(8) => \A p \in Procs : Retired(p)
             /\ Retired(1) => trace.retiredAt[1] = 6
             /\ Retired(2) => trace.retiredAt[2] = 8

\* the scenario has run to the end of cycle 8
C17_Witness ==
    /\ Scenario17
    /\ config.delayPerExec = 0
    /\ currentCycle = 8
    /\ \A p \in Procs : Retired(p)
    /\ trace.dispatches = << 1, 2, 1, 2 >>
    /\ trace.preemptions = << 1, 1 >>

\* FCFS on one core; every process was submitted before the first cycle
Scenario18 ==
    /\ worker.pc # "none"
    /\ config.numCPUs = 1 /\ config.schedulerType = "fcfs"
    /\ Len(processes) >= 1

\* the finished list is 1, 2, ... in submission order
RetiredInSubmissionOrder ==
    finishedProcesses = [ i \in 1 .. Len(finishedProcesses) |-> i ]

\* C18 as stated: FCFS on one core retires the processes in submission order,
\* and the cycle in which the last one retires is at least the sum of the
\* program lengths, and equal to it when delayPerExec = 0.
C18_Original ==
    Scenario18 =>
        /\ RetiredInSubmissionOrder
        /\ Retired(Len(processes)) =>
             /\ trace.retiredAt[Len(processes)] >= SumOfLengths
             /\ config.delayPerExec = 0 =>
                  trace.retiredAt[Len(processes)] = SumOfLengths

\* C18 as it holds: submission order and the lower bound hold for every
\* program; the last retirement is in cycle sum(L_i + (L_i - 1) * d), which is
\* sum(L_i) for d = 0, when no program is empty and none has a SLEEP ahead of
\* another instruction.
C18_FcfsRetiresInOrder ==
    Scenario18 =>
        /\ RetiredInSubmissionOrder
        /\ Retired(Len(processes)) =>
             /\ trace.retiredAt[Len(processes)] >= SumOfLengths
             /\ (\A p \in Procs : NoSleepWait(p) /\ processes[p].totalInstructions > 0) =>
                  /\ trace.retiredAt[Len(processes)] =
                        SumOver([p \in Procs |-> CyclesNeeded(p)], Procs)
                  /\ config.delayPerExec = 0 =>
                        trace.retiredAt[Len(processes)] = SumOfLengths

\* two programs of different lengths have run to the end without delay
C18_Witness ==
    /\ Scenario18
    /\ config.delayPerExec = 0
    /\ Len(processes) = 2
    /\ processes[1].totalInstructions > processes[2].totalInstructions
    /\ processes[2].totalInstructions > 1
    /\ \A p \in Procs : NoSleepWait(p)
    /\ finishedProcesses = << 1, 2 >>
    /\ trace.retiredAt[2] = SumOfLengths

\* C19: at the end of every cycle, a core that has held a process without
\* waits for n cycles has executed ceil(n / (d+1)) instructions of it, the
\* first in the dispatch cycle, and is (n-1) mod (d+1) cycles into the
\* busy-wait; a process without waits has one log line per executed
\* instruction, so the busy-wait cycles execute and log nothing; and under
\* FCFS, one core and d = 0 a first process of 3 instructions is retired in
\* cycle 3 with 3 log lines.
C19_OneInstructionPerDelayPeriod ==
    /\ worker.pc \in {"loop", "exited"} =>
         \A c \in Cores :
            LET p == cpuCores[c].currentProcess
                n == currentCycle - trace.dispatchedAt[c] + 1
                d == config.delayPerExec
            IN  (~cpuCores[c].isIdle /\ NoSleepWait(p)) =>
                  /\ cpuCores[c].executedCycles = (n + d) \div (d + 1)
                  /\ processes[p].instructionsExecuted - trace.executedBefore[c]
                       = cpuCores[c].executedCycles
                  /\ cpuCores[c].delayCyclesRemaining = d - ((n - 1) % (d + 1))
    /\ \A p \in Procs :
         NoSleepWait(p) => processes[p].logLines = processes[p].instructionsExecuted
    /\ ( /\ worker.pc # "none"
         /\ config.schedulerType = "fcfs" /\ config.numCPUs = 1
         /\ config.delayPerExec = 0
         /\ Len(processes) >= 1
         /\ processes[1].totalInstructions = 3 /\ NoSleepWait(1)
         /\ CycleDone(3) )
       => /\ Retired(1)
          /\ trace.retiredAt[1] = 3
          /\ processes[1].logLines = 3

\* with a delay of 1 a core is two instructions and three cycles into a
\* longer program, about to busy-wait
C19_Witness ==
    /\ config.delayPerExec = 1
    /\ worker.pc = "loop"
    /\ \E c \in Cores :
         /\ ~cpuCores[c].isIdle
         /\ NoSleepWait(cpuCores[c].currentProcess)
         /\ currentCycle - trace.dispatchedAt[c] + 1 = 3
         /\ cpuCores[c].executedCycles = 2
         /\ cpuCores[c].delayCyclesRemaining = 1
         /\ processes[cpuCores[c].currentProcess].logLines = 2

\* the execute step of a core that is not busy-waiting and whose process is
\* sleeping
SleepTick ==
    /\ worker.pc = "exec" /\ worker'.pc = "check"
    /\ ~isBusyWaiting(worker.core)
    /\ processes[cpuCores[worker.core].currentProcess].sleepCounter > 0

\* C20 as stated: in each of the n cycles that pass after SLEEP n the sleeping
\* process counts one cycle down, advances no instruction, and no log line is
\* written for it.
C20_SleepCyclesAreSilent ==
    [][ SleepTick =>
          LET p == cpuCores[worker.core].currentProcess
          IN  /\ processes'[p].sleepCounter = processes[p].sleepCounter - 1
              /\ processes'[p].instructionsExecuted = processes[p].instructionsExecuted
              /\ processes'[p].logLines = processes[p].logLines ]_vars

----------------------------------------------------------------------------
(* Quantum accounting, stop and start, checked under SpecSched.             *)

\* the instructions the process on core c advanced since it was dispatched
AdvancesOnDispatch(c) ==
    processes[cpuCores[c].currentProcess].instructionsExecuted
        - trace.executedBefore[c]

\* C21 as stated: on every busy core executedCycles, the counter compared with
\* quantumCycles, equals the number of instructions the process advanced since
\* it was dispatched, so a cycle without an advance consumes no quantum.
C21_QuantumCountsAdvances ==
    \A c \in Cores :
        ~cpuCores[c].isIdle => cpuCores[c].executedCycles = AdvancesOnDispatch(c)

\* stop() was called after start(): the flag is clear and a worker exists
Stopped == ~isRunning /\ worker.pc # "none"

\* once the worker has exited, every process on a core is left as it was:
\* Running on that core, in the running list, unfinished and not retired
ExitedLeavesRunning ==
    worker.pc = "exited" =>
        \A c \in Cores :
            ~cpuCores[c].isIdle =>
                LET p == cpuCores[c].currentProcess
                IN  /\ processes[p].currentState = "RUNNING"
                    /\ processes[p].assignedCore = c
                    /\ p \in Range(runningProcesses)
                    /\ p \notin Range(finishedProcesses)
                    /\ ~isFinished(processes[p])

\* C22: after stop(), with no further start(), the worker begins no new
\* cycle: it finishes the iteration it is in and exits at the next test of
\* the flag; a dispatch can only still happen in that iteration; and once the
\* worker has exited nothing moves any more, so a partly executed process
\* stays Running on its core and is not retired.
C22_StopEndsTheLoop ==
    [][ Stopped =>
          /\ currentCycle' = currentCycle
          /\ worker.pc = "loop" => worker'.pc = "exited"
          /\ worker.pc = "exited" =>
                UNCHANGED <<cpuCores, processes, readyQueue, runningProcesses,
                            finishedProcesses, worker, trace>>
          /\ trace'.dispatches # trace.dispatches =>
                trace'.dispatchedAt[worker.core] = currentCycle
          /\ ExitedLeavesRunning' ]_vars

\* the worker has exited in the middle of a program, with another process
\* still waiting in the ready queue
C22_Witness ==
    /\ worker.pc = "exited"
    /\ currentCycle >= 2
    /\ readyQueue # << >>
    /\ \E c \in Cores :
         /\ ~cpuCores[c].isIdle
         /\ processes[cpuCores[c].currentProcess].instructionsExecuted > 0
         /\ ExitedLeavesRunning

----------------------------------------------------------------------------
(* The scheduler's interface used directly (SpecApi): submit at any time,   *)
(* with names chosen by the caller and with nullptr, start() and stop() in  *)
(* any order, findProcess at any time.                                      *)

\* the names callers give their processes
ApiNames == 0 .. MaxNames - 1

\* the processes callers submit: the generator's pattern under a chosen name
ApiPrograms(id) ==
    { [ generateInstructions(NewProcess(id, count, FALSE), count)
          EXCEPT !.name = name ] :
        count \in 1 .. MaxApiIns, name \in ApiNames }

\* Scheduler(cfg) with no delay and quantum 1
InitApi ==
    /\ InitSched
    /\ config.delayPerExec = 0
    /\ config.quantumCycles = 1

\* addProcess(p) for a process the caller has constructed
SubmitNamed ==
    /\ Len(processes) < MaxApiProcs
    /\ \E newProcess \in ApiPrograms(Len(processes)) :
         processes' = Append(processes, newProcess)
    /\ addProcess(Len(processes) + 1)
    /\ trace' = [ trace EXCEPT !.preemptions = Append(@, 0),
                               !.retiredAt = Append(@, 0),
                               !.coresUsed = Append(@, {}) ]
    /\ UNCHANGED <<memVars, config, cpuCores, runningProcesses,
                   finishedProcesses, isRunning, autoGenerateProcesses,
                   totalProcessesCreated, currentCycle, deallocatedProcesses,
                   worker, facade, threads, halted>>

\* addProcess(nullptr): the pointer is pushed like any other
SubmitNull ==
    /\ ExtraCalls < MaxExtraCalls
    /\ addProcess(0)
    /\ trace' = [ trace EXCEPT !.nullSubmits = @ + 1 ]
    /\ UNCHANGED <<memVars, config, processes, cpuCores, runningProcesses,
                   finishedProcesses, isRunning, autoGenerateProcesses,
                   totalProcessesCreated, currentCycle, deallocatedProcesses,
                   worker, facade, threads, halted>>

\* the first process of the list that carries the name, 0 if there is none
RECURSIVE FirstNamed(_, _)
FirstNamed(list, name) ==
    IF list = << >> THEN 0
    ELSE IF processes[Head(list)].name = name THEN Head(list)
         ELSE FirstNamed(Tail(list), name)

\* findProcess that searches the finished list first
findProcess_FinishedFirst(name) ==
    IF FirstNamed(finishedProcesses, name) # 0
    THEN FirstNamed(finishedProcesses, name)
    ELSE FirstNamed(runningProcesses, name)

\* Process* Scheduler::findProcess(name)
findProcess(name) ==
    IF FirstNamed(runningProcesses, name) # 0
    THEN FirstNamed(runningProcesses, name)
    ELSE FirstNamed(finishedProcesses, name)

\* a caller looks a name up; the observer notes the name and the result
Find ==
    /\ \E name \in ApiNames :
         trace' = [ trace EXCEPT
                      !.found = [name |-> name, result |-> findProcess(name)] ]
    /\ UNCHANGED <<memVars, config, processes, cpuCores, readyQueue,
                   runningProcesses, finishedProcesses, isRunning,
                   autoGenerateProcesses, totalProcessesCreated, currentCycle,
                   deallocatedProcesses, worker, facade, threads, halted>>

NextApi ==
    \/ SubmitNamed
    \/ SubmitNull
    \/ start
    \/ stop
    \/ Find
    \/ CycleBeginUpTo(MaxApiCycle) /\ UNCHANGED trace
    \/ WorkerExit /\ UNCHANGED trace
    \/ assignProcessesToCores /\ trace' = NoteDispatch
    \/ ExecuteCore /\ UNCHANGED trace
    \/ CheckCore /\ trace' = NoteCheck

SpecApi == InitApi /\ [][NextApi]_vars

\* the state of the program, without the observer's notes
programVars ==
    <<memVars, config, processes, cpuCores, readyQueue, runningProcesses,
      finishedProcesses, isRunning, autoGenerateProcesses,
      totalProcessesCreated, currentCycle, deallocatedProcesses, worker,
      facade, halted, threads>>

\* C23: a start() on a started scheduler and a stop() on a stopped one leave
\* the whole state of the program as it was, and no worker is spawned; what
\* follows is therefore what would have followed without the call.
C23_RepeatedCallsChangeNothing ==
    [][ ( \/ trace'.startsIgnored # trace.startsIgnored
          \/ trace'.stopsRepeated # trace.stopsRepeated )
        => /\ UNCHANGED programVars
           /\ trace'.spawned = trace.spawned ]_vars

\* start() was called on the started scheduler, and its one worker is well
\* into its cycles
C23_Witness ==
    /\ trace.startsIgnored = 1
    /\ trace.spawned = 1
    /\ isRunning
    /\ worker.pc \in {"admit", "exec", "check"}
    /\ currentCycle >= 2
    /\ finishedProcesses # << >>

\* C24 as stated: a submit of nullptr is a no-op; the ready queue is left as
\* it was by the call.
C24_SubmitNullIsNoOp ==
    [][ trace'.nullSubmits # trace.nullSubmits => readyQueue' = readyQueue ]_vars


\* the processes of a list that carry the name
NamedIn(list, name) == { p \in Range(list) \ {0} : processes[p].name = name }

\* C25: a call of find(name) returns a process of that name from the running
\* list if there is one, otherwise one from the finished list, otherwise
\* null; so a process that is only in the ready queue is not found.
C25_FindRunningThenFinished ==
    [][ trace'.found # trace.found =>
          LET name == trace'.found.name
              r    == trace'.found.result
          IN  /\ NamedIn(runningProcesses, name) # {} =>
                    r \in NamedIn(runningProcesses, name)
              /\ ( /\ NamedIn(runningProcesses, name) = {}
                   /\ NamedIn(finishedProcesses, name) # {} ) =>
                    r \in NamedIn(finishedProcesses, name)
              /\ ( /\ NamedIn(runningProcesses, name) = {}
                   /\ NamedIn(finishedProcesses, name) = {} ) =>
                    r = 0 ]_vars

\* find has just returned null for the name of a process that waits in the
\* ready queue, while a process of another name runs and one has finished
C25_Witness ==
    /\ trace.found.result = 0
    /\ NamedIn(readyQueue, trace.found.name) # {}
    /\ NamedIn(runningProcesses, trace.found.name) = {}
    /\ NamedIn(finishedProcesses, trace.found.name) = {}
    /\ runningProcesses # << >>

\* C26 as stated: when several submitted processes share a name, find(name)
\* returns the most recently submitted of those it can return (the ones in
\* the running and finished lists).
C26_LatestSubmittedWins ==
    [][ trace'.found # trace.found =>
          LET name   == trace'.found.name
              r      == trace'.found.result
              listed == NamedIn(runningProcesses, name)
                          \cup NamedIn(finishedProcesses, name)
          IN  Cardinality(listed) > 1 =>
                \A p \in listed : p <= r ]_vars

----------------------------------------------------------------------------
(* Rejected and failed allocations, placement (SpecMem).                    *)

\* the step is a call of allocateMemory that returned (lastCall' describes it)
AllocateReturned == lastCall'.op = "alloc" /\ ~halted'

\* C27: allocate(pid, ...) for a pid that already has a record returns false
\* and leaves the whole manager as it was: frames, blocks, records, the
\* used and free totals and the failure counter.
C27_DuplicateAllocateRejected ==
    [][ ( /\ AllocateReturned
          /\ lastCall'.pid \in DOMAIN memoryManager.processMemoryMap )
        => /\ ~lastCall'.ok
           /\ memoryManager' = memoryManager ]_vars

\* an allocate for a pid with a record has been rejected although memory for
\* the largest request was free, and no failure was counted
C27_Witness ==
    /\ lastCall.op = "alloc" /\ ~lastCall.ok
    /\ lastCall.pid \in Records
    /\ memoryManager.totalFree >= memoryManager.maxMemPerProcess
    /\ memoryManager.allocationFailures = 0
    /\ Cardinality(Records) >= 2

\* what allocate looks for and does not find: in paged mode as many free
\* frames as the clamped request has pages, in contiguous mode a free block
\* of at least the clamped request
NoRoomFor(mm, requested) ==
    LET memorySize == Min(Max(requested, mm.minMemPerProcess), mm.maxMemPerProcess)
    IN  IF mm.allocationType = "PAGING"
        THEN Cardinality({ n \in DOMAIN mm.frames : mm.frames[n].isFree })
               < (memorySize + mm.memPerFrame - 1) \div mm.memPerFrame
        ELSE \A i \in 1 .. Len(mm.blocks) : ~Fits(mm.blocks, i, memorySize)

\* C28: in every state the manager reaches, an allocate for a new pid that
\* finds no room returns false, adds exactly one to the failure counter and
\* leaves frames, blocks, records and the used and free totals as they are;
\* and every call that returned false for a new pid did just that.
C28_FailedAllocateOnlyCounts ==
    /\ \A pid \in 0 .. MaxPid, size \in 0 .. MaxRequest :
         (pid \notin Records /\ NoRoomFor(memoryManager, size)) =>
            /\ ~allocateMemory(memoryManager, pid, size).ok
            /\ allocateMemory(memoryManager, pid, size).mm
                 = [memoryManager EXCEPT !.allocationFailures = @ + 1]
    /\ \A pid \in 0 .. MaxPid, size \in 0 .. MaxRequest :
         (pid \notin Records /\ ~allocateMemory(memoryManager, pid, size).ok) =>
            NoRoomFor(memoryManager, size)
    /\ ( /\ lastCall.op = "alloc" /\ ~lastCall.ok
         /\ lastCall.pid \notin Records ) =>
            /\ memoryManager.allocationFailures >= 1
            /\ memoryManager.totalAllocated = lastCall.pre.used
            /\ memoryManager.totalFree = lastCall.pre.free
            /\ Snapshot(memoryManager).freeFrames = lastCall.pre.freeFrames

\* a paged allocate for a new pid has just failed with one frame still free
C28_Witness ==
    /\ Paged
    /\ lastCall.op = "alloc" /\ ~lastCall.ok
    /\ lastCall.pid \notin Records
    /\ Cardinality(Snapshot(memoryManager).freeFrames) = 1
    /\ memoryManager.allocationFailures = 1
    /\ NoRoomFor(memoryManager, memoryManager.maxMemPerProcess)


\* C29: a contiguous allocate that succeeds takes, among the free blocks of
\* at least the clamped request, the lowest-index one under FirstFit, a
\* smallest one under BestFit and a largest one under WorstFit, and turns it
\* into an occupied block of the request's size followed, when the block was
\* larger, by a free block holding the rest.
C29_PlacementAndSplit ==
    [][ ( AllocateReturned /\ ~Paged /\ lastCall'.ok ) =>
          LET pid    == lastCall'.pid
              size   == memoryManager'.processMemoryMap[pid].memoryAllocated
              blocks == memoryManager.blocks
              fits   == { i \in 1 .. Len(blocks) : Fits(blocks, i, size) }
              chosen == { i \in fits :
                            IF memoryManager.allocationStrategy = "FIRST_FIT"
                            THEN \A j \in fits : i <= j
                            ELSE IF memoryManager.allocationStrategy = "BEST_FIT"
                                 THEN \A j \in fits : blocks[i].size <= blocks[j].size
                                 ELSE \A j \in fits : blocks[i].size >= blocks[j].size }
          IN  \E i \in chosen :
                memoryManager'.blocks
                  = SubSeq(blocks, 1, i - 1)
                    \o << [ startAddress |-> blocks[i].startAddress, size |-> size,
                            isFree |-> FALSE, processID |-> pid ] >>
                    \o ( IF blocks[i].size > size
                         THEN << MemoryBlock(blocks[i].startAddress + size,
                                             blocks[i].size - size) >>
                         ELSE << >> )
                    \o SubSeq(blocks, i + 1, Len(blocks)) ]_vars

\* the scenario of C30 scaled to MaxMem: contiguous FirstFit, A of 2 KiB as
\* pid 0, B of 3 KiB as pid 1, C of 2 KiB as pid 2, then B is deallocated.
\* D of 2 KiB takes the pid B gave up.
Scenario30 ==
    LET fresh  == NewMemoryManager(MaxMem, 2, 2, 4, "FLAT", "FIRST_FIT")
        afterA == allocateMemory(fresh, 0, 2).mm
        afterB == allocateMemory(afterA, 1, 3).mm
        afterC == allocateMemory(afterB, 2, 2).mm
    IN  [ afterB |-> afterB, freedB |-> deallocateMemory(afterC, 1, {}).mm ]

\* C30: in the state after allocate A, B, C and deallocate B, allocating D
\* succeeds at the start address B had and leaves a free block of B's size
\* less D's; deallocating A then leaves a free block that starts at A's
\* address and is made of A's block and that remainder.
C30_FirstFitReusesTheHole ==
    memoryManager = Scenario30.freedB =>
        LET d == allocateMemory(memoryManager, 1, 2)
            a == deallocateMemory(d.mm, 0, {})
            startOfB == Scenario30.afterB.processMemoryMap[1].startAddress
        IN  /\ d.ok
            /\ d.mm.processMemoryMap[1].startAddress = startOfB
            /\ \E i \in 1 .. Len(d.mm.blocks) :
                 d.mm.blocks[i] = MemoryBlock(startOfB + 2, 3 - 2)
            /\ a.ok
            /\ \E i \in 1 .. Len(a.mm.blocks) :
                 a.mm.blocks[i] = MemoryBlock(0, 2 + (3 - 2))


----------------------------------------------------------------------------
(* Page-outs on deallocation (SpecMem).                                     *)

\* C31: in paged mode a deallocate of a recorded pid, whichever appends to the
\* backing store fail, returns true, clears every frame the pid owned and no
\* other, lowers the used total and raises the free total by the recorded
\* allocation and erases the record; it counts one page-out for each owned
\* frame whose append succeeded, that is one per owned frame when none fails.
C31_DeallocatePagesOutAndFrees ==
    Paged =>
      \A pid \in Records, writable \in SUBSET DOMAIN memoryManager.frames :
        LET memInfo == memoryManager.processMemoryMap[pid]
            owned   == { memInfo.frameNumbers[i] : i \in 1 .. Len(memInfo.frameNumbers) }
            r       == deallocateMemory(memoryManager, pid, writable)
        IN  /\ r.ok
            /\ r.mm.pagesPagedOut
                 = memoryManager.pagesPagedOut + Cardinality(owned \cap writable)
            /\ owned # {}
            /\ \A n \in DOMAIN memoryManager.frames :
                 r.mm.frames[n] = IF n \in owned THEN MemoryFrame
                                  ELSE memoryManager.frames[n]
            /\ r.mm.totalAllocated = memoryManager.totalAllocated - memInfo.memoryAllocated
            /\ r.mm.totalFree = memoryManager.totalFree + memInfo.memoryAllocated
            /\ DOMAIN r.mm.processMemoryMap = Records \ {pid}

\* a deallocate has just freed two frames and counted one page-out, the only
\* one so far: one of its two appends failed
C31_Witness ==
    /\ Paged
    /\ lastCall.op = "dealloc" /\ lastCall.ok
    /\ lastCall.pid \notin Records
    /\ Cardinality(Snapshot(memoryManager).freeFrames \ lastCall.pre.freeFrames) = 2
    /\ memoryManager.pagesPagedOut = 1
    /\ memoryManager.totalFree > lastCall.pre.free

----------------------------------------------------------------------------
(* Randomly generated programs on the scheduler (SpecRand).                 *)

\* Scheduler(cfg) with every core in use and no delay
InitRand ==
    /\ InitSched
    /\ config.numCPUs = MaxCPUs
    /\ config.delayPerExec = 0

\* a process is created, given generateRandomInstructions(count) and
\* submitted with addProcess, before start()
SubmitRandom ==
    /\ worker.pc = "none"
    /\ Len(processes) < MaxRandProcs
    /\ \E drawn \in RandomDraws :
         processes' = Append(processes,
                             generateRandomInstructions(
                                 NewProcess(totalProcessesCreated, Len(drawn), FALSE),
                                 drawn))
    /\ totalProcessesCreated' = totalProcessesCreated + 1
    /\ addProcess(Len(processes) + 1)
    /\ trace' = [ trace EXCEPT !.preemptions = Append(@, 0),
                               !.retiredAt = Append(@, 0),
                               !.coresUsed = Append(@, {}) ]
    /\ UNCHANGED <<memVars, config, cpuCores, runningProcesses,
                   finishedProcesses, isRunning, autoGenerateProcesses,
                   currentCycle, deallocatedProcesses, worker, facade, threads, halted>>

NextRand ==
    \/ SubmitRandom
    \/ start /\ worker.pc = "none"
    \/ stop /\ isRunning
    \/ CycleBeginUpTo(MaxRandCycle) /\ UNCHANGED trace
    \/ WorkerExit /\ UNCHANGED trace
    \/ assignProcessesToCores /\ trace' = NoteDispatch
    \/ ExecuteCore /\ UNCHANGED trace
    \/ CheckCore /\ trace' = NoteCheck

SpecRand == InitRand /\ [][NextRand]_vars

\* C32: no step in which the cycle worker executes an instruction ends the
\* program: the step completes and the program is not killed.
C32_ExecutionNeverFaults ==
    [][ worker.pc = "exec" => ~halted' ]_vars

----------------------------------------------------------------------------
(* Sleep and busy-wait (SpecSched).                                         *)

\* C33: in every cycle a sleeping process spends on a core, busy-waiting or
\* not, its sleep counter goes down by one; and an instruction advances only
\* in a cycle that begins with the sleep counter and the busy-wait counter
\* both zero.
C33_SleepTicksEveryCycle ==
    [][ ( /\ worker.pc = "exec" /\ worker' # worker
          /\ ~cpuCores[worker.core].isIdle ) =>
          LET p == cpuCores[worker.core].currentProcess
          IN  /\ processes[p].sleepCounter > 0 =>
                   processes'[p].sleepCounter = processes[p].sleepCounter - 1
              /\ processes'[p].instructionsExecuted > processes[p].instructionsExecuted =>
                   /\ processes[p].sleepCounter = 0
                   /\ cpuCores[worker.core].delayCyclesRemaining = 0 ]_vars

----------------------------------------------------------------------------
(* The mutexes (SpecLocks).  Every operation is followed lock by lock: a    *)
(* thread inside an operation stands at a step of the operation's script.   *)
(* What the scheduler's operations do to the lists between their locks is   *)
(* followed in Spec, SpecSched and SpecApi and left out here; the manager's *)
(* operations change the manager in the two parts their code has.           *)

\* queueMutex, runningMutex, finishedMutex (Scheduler.h:103-105) in the order
\* the lock-ordering rule names them, and memoryMutex (Memory.h:112)
MutexRank(m) == IF m = "queue" THEN 1 ELSE IF m = "running" THEN 2 ELSE 3

Lock(m)   == << "lock", m >>
Unlock(m) == << "unlock", m >>
Do(what)  == << "do", what >>

\* moveToFinished and preemptProcess with the second lock taken inside the
\* first
SchedulerScripts_Nested(op) ==
    IF op = "moveToFinished"
    THEN { << Lock("finished"), Lock("running"), Unlock("running"), Unlock("finished") >> }
    ELSE IF op = "preemptProcess"
    THEN { << Lock("running"), Lock("queue"), Unlock("queue"), Unlock("running") >> }
    ELSE IF op = "assignProcessesToCores"
    THEN { << Lock("queue"), Lock("running"), Unlock("running"), Unlock("queue") >> }
    ELSE { << Lock("queue"), Unlock("queue") >> }

\* preemptProcess requeueing inside its running lock
SchedulerScripts_RequeueInside(op) ==
    IF op = "preemptProcess"
    THEN { << Lock("running"), Lock("queue"), Unlock("queue"), Unlock("running") >> }
    ELSE IF op = "assignProcessesToCores"
    THEN { << Lock("queue"), Unlock("queue") >>,
           << Lock("queue"), Lock("running"), Unlock("running"), Unlock("queue") >> }
    ELSE IF op = "moveToFinished"
    THEN { << Lock("finished"), Unlock("finished"),
              Lock("running"), Unlock("running") >> }
    ELSE IF op = "deallocateFinishedProcesses"
    THEN { << Lock("finished"), Unlock("finished") >> }
    ELSE { << Lock("queue"), Unlock("queue") >> }

\* the scheduler's operations as sequences of lock_guard scopes, one script
\* for each path through the operation that takes a lock; what is done to
\* the lists inside a scope is done with the lock that opens it
SchedulerScripts(op) ==
    IF op = "addProcess"                      \* Scheduler.h:142-145
    THEN { << Lock("queue"), Unlock("queue") >> }
    ELSE IF op = "assignProcessesToCores"     \* Scheduler.h:445-467, one core
    THEN { << Lock("queue"), Unlock("queue") >>,
           << Lock("queue"), Lock("running"), Unlock("running"), Unlock("queue") >> }
    ELSE IF op = "moveToFinished"             \* Scheduler.h:470-491
    THEN { << Lock("finished"), Unlock("finished"),
              Lock("running"), Unlock("running") >> }
    ELSE IF op = "preemptProcess"             \* Scheduler.h:494-514
    THEN { << Lock("running"), Unlock("running"),
              Lock("queue"), Unlock("queue") >> }
    ELSE IF op = "findProcess"                \* Scheduler.h:266-284
    THEN { << Lock("running"), Unlock("running") >>,
           << Lock("running"), Unlock("running"),
              Lock("finished"), Unlock("finished") >> }
    ELSE IF op = "displayProcessLists"        \* Scheduler.h:196-245
    THEN { << Lock("running"), Unlock("running"),
              Lock("queue"), Unlock("queue"),
              Lock("finished"), Unlock("finished") >> }
    ELSE IF op = "getRunningProcesses"        \* Scheduler.h:292-295
    THEN { << Lock("running"), Unlock("running") >> }
    ELSE IF op = "getFinishedProcesses"       \* Scheduler.h:298-301
    THEN { << Lock("finished"), Unlock("finished") >> }
    ELSE \* deallocateFinishedProcesses, Scheduler.h:311-326: nothing to
         \* sweep, or one deallocateMemory inside the finished lock
         { << Lock("finished"), Unlock("finished") >>,
           << Lock("finished"), Lock("manager"), Do("clear"), Do("uncount"),
              Unlock("manager"), Unlock("finished") >> }

\* the manager's operations: allocate and deallocate write the frames and
\* then the totals and the map inside the lock; the queries read
ManagerScripts(op) ==
    IF op = "allocateMemory"                  \* Memory.h:232-332
    THEN { << Lock("manager"), Do("mark"), Do("count"), Unlock("manager") >> }
    ELSE IF op = "deallocateMemory"           \* Memory.h:366-411
    THEN { << Lock("manager"), Do("clear"), Do("uncount"), Unlock("manager") >> }
    ELSE IF op \in {"isProcessAllocated", "displayVMStat"}
                                              \* Memory.h:486-489, 592-669
    THEN { << Lock("manager"), Do("read"), Unlock("manager") >> }
    ELSE \* getUsedMemory, getNumUsedFrames and the other inline getters,
         \* Memory.h:160-170 and 478-483, and getMemorySnapshot, 672-690:
         \* no lock_guard
         { << Do("read") >> }


\* the manager's operations: the two that write and the queries
ManagerOps ==
    {"allocateMemory", "deallocateMemory",
     "isProcessAllocated", "displayVMStat", "getUsedMemory", "getMemorySnapshot"}


\* what each thread calls: the cycle worker its three private steps, the
\* generator addProcess, the facade thread the scheduler's public interface
\* and the manager's queries, a client of the manager allocate and deallocate
Repertoire(kind) ==
    IF kind = "worker"
    THEN {"assignProcessesToCores", "moveToFinished", "preemptProcess"}
    ELSE IF kind = "generator"
    THEN {"addProcess"}
    ELSE IF kind = "facade"
    THEN {"addProcess", "findProcess", "displayProcessLists",
          "getRunningProcesses", "getFinishedProcesses",
          "deallocateFinishedProcesses"}
            \cup (ManagerOps \ {"allocateMemory", "deallocateMemory"})
    ELSE {"allocateMemory", "deallocateMemory"}

\* a thread between two calls
Idle(kind) == [kind |-> kind, op |-> "", script |-> << >>, pc |-> 1, id |-> << >>]

\* the mutexes thread t holds: locked before its position and not unlocked
Held(t) ==
    LET th == threads[t]
    IN  { m \in {"queue", "running", "finished", "manager"} :
            \E i \in 1 .. th.pc - 1 :
               /\ i <= Len(th.script)
               /\ th.script[i] = Lock(m)
               /\ \A j \in i + 1 .. th.pc - 1 : th.script[j] # Unlock(m) }

\* the step thread t stands at
AtStep(t) ==
    IF threads[t].op # "" THEN threads[t].script[threads[t].pc] ELSE << "", "" >>

\* what a query reads: the used total and the number of occupied frames
Observed(mm) ==
    [ used       |-> mm.totalAllocated,
      usedFrames |-> Cardinality({ n \in DOMAIN mm.frames : ~mm.frames[n].isFree }) ]

\* the worker, the generator, the facade thread and a client; one paged manager
InitLocks ==
    /\ config = DefaultConfig
    /\ memoryManager = NewMemoryManager(MaxLockMem, 2, 2, MaxLockMem,
                                        "PAGING", "FIRST_FIT")
    /\ lastCall = NoCall
    /\ processes = << >>
    /\ cpuCores = << >>
    /\ readyQueue = << >>
    /\ runningProcesses = << >>
    /\ finishedProcesses = << >>
    /\ isRunning = TRUE
    /\ autoGenerateProcesses = TRUE
    /\ totalProcessesCreated = 0
    /\ currentCycle = 0
    /\ deallocatedProcesses = {}
    /\ worker = [pc |-> "loop", core |-> 0]
    /\ facade = "input"
    /\ halted = FALSE
    /\ trace = NoTrace
    /\ threads = << Idle("worker"), Idle("generator"), Idle("facade"), Idle("client") >>

\* thread t enters an operation of its repertoire on one of its paths; a
\* manager operation is called with a pid and, for allocate, a size
BeginCall(t) ==
    /\ threads[t].op = ""
    /\ \E op \in Repertoire(threads[t].kind) :
       \E script \in (IF op \in ManagerOps THEN ManagerScripts(op)
                                            ELSE SchedulerScripts(op)),
          pid \in 0 .. MaxLockPid, size \in {2, MaxLockMem} :
         /\ op = "allocateMemory" => memoryManager.allocationFailures < MaxFailures
         /\ Do("clear") \in Range(script) =>
              memoryManager.pagesPagedOut + Cardinality(DOMAIN memoryManager.frames)
                 <= MaxPagedOut
         /\ op # "allocateMemory" => size = 2
         /\ Do("clear") \notin Range(script) /\ op # "allocateMemory" => pid = 0
         /\ threads' = [threads EXCEPT ![t] =
                          [ kind |-> @.kind, op |-> op, script |-> script, pc |-> 1,
                            id |-> << pid, size >> ]]
    /\ UNCHANGED <<memVars, config, processes, cpuCores, readyQueue,
                   runningProcesses, finishedProcesses, isRunning,
                   autoGenerateProcesses, totalProcessesCreated, currentCycle,
                   deallocatedProcesses, worker, facade, halted, trace>>

\* thread t takes the step it stands at and returns after the last one.  A
\* lock waits until no thread holds the mutex.  allocate and deallocate do
\* their work in two writes: the frames first, the totals and the map
\* afterwards; a failed one writes once and skips the second.
StepCall(t) ==
    LET th   == threads[t]
        step == AtStep(t)
        To(pc, id) == IF pc > Len(th.script) THEN Idle(th.kind)
                      ELSE [th EXCEPT !.pc = pc, !.id = id]
    IN  /\ th.op # ""
        /\ IF step[1] = "lock"
           THEN /\ \A u \in DOMAIN threads : step[2] \notin Held(u)
                /\ threads' = [threads EXCEPT ![t] = To(th.pc + 1, th.id)]
                /\ UNCHANGED memoryManager
           ELSE IF step = Do("mark")
           THEN LET r == allocateMemory(memoryManager, th.id[1], th.id[2])
                IN  IF r.ok
                    THEN /\ memoryManager' = [memoryManager EXCEPT !.frames = r.mm.frames]
                         /\ threads' = [threads EXCEPT ![t] = To(th.pc + 1, << r.mm >>)]
                    ELSE /\ memoryManager' = r.mm
                         /\ threads' = [threads EXCEPT ![t] = To(th.pc + 2, th.id)]
           ELSE IF step = Do("clear")
           THEN LET r == deallocateMemory(memoryManager, th.id[1],
                                          DOMAIN memoryManager.frames)
                IN  IF r.ok
                    THEN /\ memoryManager' =
                              [memoryManager EXCEPT !.frames = r.mm.frames,
                                                    !.pagesPagedOut = r.mm.pagesPagedOut]
                         /\ threads' = [threads EXCEPT ![t] = To(th.pc + 1, << r.mm >>)]
                    ELSE /\ memoryManager' = r.mm
                         /\ threads' = [threads EXCEPT ![t] = To(th.pc + 2, th.id)]
           ELSE IF step \in {Do("count"), Do("uncount")}
           THEN /\ memoryManager' = th.id[1]
                /\ threads' = [threads EXCEPT ![t] = To(th.pc + 1, << >>)]
           ELSE /\ threads' = [threads EXCEPT ![t] = To(th.pc + 1, th.id)]
                /\ UNCHANGED memoryManager
        /\ UNCHANGED <<lastCall, config, processes, cpuCores, readyQueue,
                       runningProcesses, finishedProcesses, isRunning,
                       autoGenerateProcesses, totalProcessesCreated, currentCycle,
                       deallocatedProcesses, worker, facade, halted, trace>>

NextLocks == \E t \in 1 .. 4 : BeginCall(t) \/ StepCall(t)

SpecLocks == InitLocks /\ [][NextLocks]_vars

----------------------------------------------------------------------------
(* Claims about the mutexes (SpecLocks)                                     *)


\* C34 as stated: no operation holds two of the three scheduler mutexes
\* (queue, running, finished) at the same time.
C34_NoTwoSchedulerMutexes ==
    \A t \in DOMAIN threads : Cardinality((Held(t) \ {"manager"})) <= 1

\* C34: no operation but admission (assignProcessesToCores) holds two of the
\* three scheduler mutexes at the same time; admission holds the queue mutex
\* and, inside it, the running mutex, and nothing holds all three.
C34_OnlyAdmitHoldsTwo ==
    \A t \in DOMAIN threads :
       \/ Cardinality((Held(t) \ {"manager"})) <= 1
       \/ /\ threads[t].op = "assignProcessesToCores"
          /\ (Held(t) \ {"manager"}) = {"queue", "running"}
          /\ threads[t].script[1] = Lock("queue")

\* the worker admits: it holds the queue and the running mutex together
C34_Witness ==
    /\ threads # << >>
    /\ threads[1].op = "assignProcessesToCores"
    /\ Held(1) = {"queue", "running"}
    /\ AtStep(1) = Unlock("running")

\* C35: a thread that acquires a scheduler mutex while it holds another one
\* holds only mutexes earlier in the order queue, running, finished; no
\* thread waits for a scheduler mutex holding the manager mutex; and the
\* worker, the generator and the callers never all wait for each other:
\* while a thread is inside an operation, some thread inside one can step.
C35_LockOrderNoDeadlock ==
    /\ \A t \in DOMAIN threads :
         LET step == AtStep(t)
         IN  (step[1] = "lock" /\ step[2] # "manager") =>
               /\ "manager" \notin Held(t)
               /\ \A h \in Held(t) : MutexRank(h) < MutexRank(step[2])
    /\ (\E t \in DOMAIN threads : threads[t].op # "") =>
         \E t \in DOMAIN threads :
            /\ threads[t].op # ""
            /\ AtStep(t)[1] = "lock" =>
                 \A u \in DOMAIN threads : AtStep(t)[2] \notin Held(u)

\* the worker holds the queue mutex and waits for the running mutex, which
\* the facade thread holds, while the generator waits for the queue mutex
C35_Witness ==
    /\ threads # << >>
    /\ Held(1) = {"queue"}
    /\ AtStep(1) = Lock("running")
    /\ "running" \in Held(3)
    /\ AtStep(2) = Lock("queue")

\* C36: no query reads the manager while an allocate or a deallocate has
\* written the frames and not yet the totals: what a query reads as used
\* memory is the memory of the occupied frames.
C36_QueriesSeeWholeOperations ==
    [][ \A t \in DOMAIN threads :
          (AtStep(t) = Do("read") /\ threads'[t] # threads[t]) =>
             Observed(memoryManager).used =
                Observed(memoryManager).usedFrames * memoryManager.memPerFrame ]_vars

----------------------------------------------------------------------------
(* The detached threads (SpecThreads).  start() and startProcessGeneration() *)
(* spawn a thread and detach it; stop() and stopProcessGeneration() clear   *)
(* the flag the thread tests and wait for nothing.  A caller makes the      *)
(* calls one after the other; every spawned thread is followed from test to *)
(* test of its flag.  What a cycle does to the processes is followed in     *)
(* SpecSched.                                                               *)



\* a thread as start() or startProcessGeneration() spawns it, at the first
\* test of its flag.  cpuExecutionLoop: the test of isRunning, then the cycle
\* and its 100 ms.  processGenerationLoop: the test of autoGenerateProcesses,
\* the sleep and the second test, the reads of totalProcessesCreated for the
\* name and the id, then the increment and addProcess.
Spawned(kind) ==
    [ kind |-> kind,
      op |-> IF kind = "worker" THEN "cpuExecutionLoop" ELSE "processGenerationLoop",
      script |-> IF kind = "worker" THEN << "while", "cycle" >>
                 ELSE << "while", "sleep", "name", "addProcess" >>,
      pc |-> 1, id |-> << >> ]


\* the thread list without thread t (a detached thread that has returned)
Returned(t) ==
    [ i \in 1 .. Len(threads) - 1 |-> IF i < t THEN threads[i] ELSE threads[i + 1] ]

\* a scheduler as constructed, before start(); generated programs have one
\* instruction
InitThreads ==
    /\ config = [DefaultConfig EXCEPT !.minInstructions = 1, !.maxInstructions = 1]
    /\ processes = << >>
    /\ cpuCores = << >>
    /\ readyQueue = << >>
    /\ runningProcesses = << >>
    /\ finishedProcesses = << >>
    /\ isRunning = FALSE
    /\ autoGenerateProcesses = FALSE
    /\ totalProcessesCreated = 0
    /\ currentCycle = 0
    /\ deallocatedProcesses = {}
    /\ worker = [pc |-> "none", core |-> 0]
    /\ facade = "done"
    /\ halted = FALSE
    /\ threads = << >>
    /\ trace = NoTrace
    /\ memoryManager = NewMemoryManager(MaxLockMem, 2, 2, MaxLockMem,
                                        "PAGING", "FIRST_FIT")
    /\ lastCall = NoCall


\* Scheduler::start(): with isRunning clear, set it and spawn a worker (a
\* call with the flag set does nothing)
ThreadStart ==
    /\ ~isRunning
    /\ Len(threads) < MaxThreads
    /\ isRunning' = TRUE
    /\ threads' = Append(threads, Spawned("worker"))
    /\ UNCHANGED <<memVars, config, processes, cpuCores, readyQueue,
                   runningProcesses, finishedProcesses, autoGenerateProcesses,
                   totalProcessesCreated, currentCycle, deallocatedProcesses,
                   worker, facade, halted, trace>>

\* Scheduler::stop(): both flags are cleared
ThreadStop ==
    /\ isRunning \/ autoGenerateProcesses
    /\ isRunning' = FALSE
    /\ autoGenerateProcesses' = FALSE
    /\ UNCHANGED <<memVars, config, processes, cpuCores, readyQueue,
                   runningProcesses, finishedProcesses, totalProcessesCreated,
                   currentCycle, deallocatedProcesses, worker, facade, threads,
                   halted, trace>>


\* Scheduler::startProcessGeneration(): with autoGenerateProcesses clear, set
\* it and spawn a generator
ThreadStartGeneration ==
    /\ ~autoGenerateProcesses
    /\ Len(threads) < MaxThreads
    /\ autoGenerateProcesses' = TRUE
    /\ threads' = Append(threads, Spawned("generator"))
    /\ UNCHANGED <<memVars, config, processes, cpuCores, readyQueue,
                   runningProcesses, finishedProcesses, isRunning,
                   totalProcessesCreated, currentCycle, deallocatedProcesses,
                   worker, facade, halted, trace>>

\* Scheduler::stopProcessGeneration()
ThreadStopGeneration ==
    /\ autoGenerateProcesses
    /\ autoGenerateProcesses' = FALSE
    /\ UNCHANGED <<memVars, config, processes, cpuCores, readyQueue,
                   runningProcesses, finishedProcesses, isRunning,
                   totalProcessesCreated, currentCycle, deallocatedProcesses,
                   worker, facade, threads, halted, trace>>

\* cpuExecutionLoop of thread t: while (isRunning) { currentCycle++; ... }
WorkerStep(t) ==
    /\ threads[t].kind = "worker"
    /\ IF threads[t].pc = 1
       THEN /\ threads' = IF isRunning THEN [threads EXCEPT ![t].pc = 2]
                          ELSE Returned(t)
            /\ UNCHANGED currentCycle
       ELSE /\ currentCycle < MaxThreadCycle
            /\ currentCycle' = currentCycle + 1
            /\ threads' = [threads EXCEPT ![t].pc = 1]
    /\ UNCHANGED <<memVars, config, processes, cpuCores, readyQueue,
                   runningProcesses, finishedProcesses, isRunning,
                   autoGenerateProcesses, totalProcessesCreated,
                   deallocatedProcesses, worker, facade, halted, trace>>

\* processGenerationLoop of thread t, from one read or write of the shared
\* state to the next
GeneratorStep(t) ==
    LET th == threads[t]
    IN  /\ th.kind = "generator"
        /\ IF th.pc \in {1, 2}
           THEN /\ threads' = IF autoGenerateProcesses
                              THEN [threads EXCEPT ![t].pc = @ + 1]
                              ELSE Returned(t)
                /\ UNCHANGED <<processes, readyQueue, totalProcessesCreated>>
           ELSE IF th.pc = 3
           THEN /\ threads' = [threads EXCEPT ![t].pc = 4,
                                              ![t].id = << totalProcessesCreated >>]
                /\ UNCHANGED <<processes, readyQueue, totalProcessesCreated>>
           ELSE /\ Len(processes) < MaxGenerated
                /\ \E count \in InstructionCounts :
                     processes' = Append(processes,
                                    generateInstructions(
                                       NewProcess(th.id[1], count, FALSE), count))
                /\ totalProcessesCreated' = totalProcessesCreated + 1
                /\ addProcess(Len(processes) + 1)
                /\ threads' = [threads EXCEPT ![t].pc = 1, ![t].id = << >>]
        /\ UNCHANGED <<memVars, config, cpuCores, runningProcesses,
                       finishedProcesses, isRunning, autoGenerateProcesses,
                       currentCycle, deallocatedProcesses, worker, facade,
                       halted, trace>>

NextThreads ==
    \/ ThreadStart
    \/ ThreadStop
    \/ ThreadStartGeneration
    \/ ThreadStopGeneration
    \/ \E t \in DOMAIN threads : WorkerStep(t)
    \/ \E t \in DOMAIN threads : GeneratorStep(t)

SpecThreads == InitThreads /\ [][NextThreads]_vars

\* C37: for every interleaving of start() and stop() with the worker's test
\* of isRunning, at most one cycle worker is inside the cycle loop.
C37_AtMostOneWorker ==
    Cardinality({ t \in DOMAIN threads :
                    threads[t].kind = "worker" /\ threads[t].pc > 1 }) <= 1

\* C38: at most one generator is active at any time, and the processes the
\* generators have submitted have pairwise distinct sequence numbers.
C38_OneGeneratorDistinctNumbers ==
    /\ Cardinality({ t \in DOMAIN threads :
                       threads[t].kind = "generator" /\ threads[t].pc > 1 }) <= 1
    /\ \A p, q \in Procs : p # q => processes[p].processID # processes[q].processID

----------------------------------------------------------------------------
(* Where a process is (SpecSched)                                           *)

\* C39: at every cycle boundary each submitted process is in exactly one
\* place: once in the ready queue, or on one core and once in the running
\* list, or once in the finished list; and a process in the finished list
\* stays there: it is never dispatched or requeued again.
C39_EveryProcessInOnePlace ==
    [][ LET Times(list, p) == Cardinality({ i \in DOMAIN list : list[i] = p })
            OnCores(p) == { c \in DOMAIN cpuCores' :
                              ~cpuCores'[c].isIdle /\ cpuCores'[c].currentProcess = p }
            Queued(p)   == /\ Times(readyQueue', p) = 1
                           /\ OnCores(p) = {}
                           /\ Times(runningProcesses', p) = 0
                           /\ Times(finishedProcesses', p) = 0
            Running(p)  == /\ Times(readyQueue', p) = 0
                           /\ Cardinality(OnCores(p)) = 1
                           /\ Times(runningProcesses', p) = 1
                           /\ Times(finishedProcesses', p) = 0
            Finished(p) == /\ Times(readyQueue', p) = 0
                           /\ OnCores(p) = {}
                           /\ Times(runningProcesses', p) = 0
                           /\ Times(finishedProcesses', p) = 1
        IN  /\ worker'.pc = "loop" =>
                 \A p \in 1 .. Len(processes') : Queued(p) \/ Running(p) \/ Finished(p)
            /\ \A p \in Range(finishedProcesses) :
                 /\ p \in Range(finishedProcesses')
                 /\ p \notin Range(readyQueue')
                 /\ \A c \in DOMAIN cpuCores' : cpuCores'[c].currentProcess # p ]_vars

\* a cycle boundary with one process retired and the other, preempted
\* before, back on a core
C39_Witness ==
    /\ worker.pc = "loop"
    /\ currentCycle > 0
    /\ Len(finishedProcesses) = 1
    /\ Len(runningProcesses) = 1
    /\ \E p \in Range(runningProcesses) : trace.preemptions[p] > 0

----------------------------------------------------------------------------
(* Progress (FairSched).  The scheduler is started and not stopped, the     *)
(* cycle worker keeps being scheduled, and processes are submitted before   *)
(* and during the run.  The worker is followed for as long as a submitted   *)
(* process is unfinished, and for MaxFairIdle cycles with nothing to run.   *)

\* addProcess from another thread while the worker runs: the generator's
\* round or a submission through the interface
SubmitWhileRunning ==
    /\ worker.pc # "none"
    /\ Len(processes) < MaxSchedProcs
    /\ \E newProcess \in SchedPrograms(totalProcessesCreated) :
         processes' = Append(processes, newProcess)
    /\ totalProcessesCreated' = totalProcessesCreated + 1
    /\ addProcess(Len(processes) + 1)
    /\ trace' = [ trace EXCEPT !.preemptions = Append(@, 0),
                               !.retiredAt = Append(@, 0),
                               !.coresUsed = Append(@, {}) ]
    /\ UNCHANGED <<memVars, config, cpuCores, runningProcesses,
                   finishedProcesses, isRunning, autoGenerateProcesses,
                   currentCycle, deallocatedProcesses, worker, facade, threads, halted>>

\* the steps of the cycle worker, one thread
WorkerFair ==
    \/ /\ CycleBeginUpTo(IF \E p \in Procs : ~Retired(p) THEN MaxSchedCycle
                                                         ELSE MaxFairIdle)
       /\ UNCHANGED trace
    \/ assignProcessesToCores /\ trace' = NoteDispatch
    \/ ExecuteCore /\ UNCHANGED trace
    \/ CheckCore /\ trace' = NoteCheck

NextFair ==
    \/ Submit
    \/ SubmitWhileRunning
    \/ start /\ worker.pc = "none"
    \/ WorkerFair

\* the worker thread is detached and sleeps 100 ms a cycle: it is scheduled
\* again and again
FairSched == InitSched /\ [][NextFair]_vars /\ WF_vars(WorkerFair)

\* C40: once the scheduler runs, every submitted process is eventually
\* retired, under FCFS and under RR, whenever it was submitted; and the
\* processes are put on a core for the first time in submission order.
C40_EveryProcessRetires ==
    /\ [](\A k \in DOMAIN trace.dispatches :
            \A q \in 1 .. trace.dispatches[k] - 1 :
               \E j \in 1 .. k - 1 : trace.dispatches[j] = q)
    /\ \A p \in 1 .. MaxSchedProcs :
         (isRunning /\ p \in Procs) ~> (p \in Procs /\ Retired(p))

\* two cores, and the second process was put on a core after the first one
\* retired (so it was submitted while the worker ran); both are retired
C40_Witness ==
    /\ config.numCPUs = 2
    /\ Len(processes) = 2
    /\ \A p \in Procs : Retired(p)
    /\ trace.retiredAt[1] > 0
    /\ \E c \in Cores : /\ trace.coresUsed[2] = {c}
                        /\ trace.dispatchedAt[c] > trace.retiredAt[1]

====
